---- MODULE Spec2Model ----
(***************************************************************************)
(* Model of the neuromorphic learning-network orchestrator of              *)
(* claude_pyspice_net.py: topology generation, circuit construction,       *)
(* phased stimulus synthesis, simulation, state extraction and the         *)
(* learning loop.                                                          *)
(*                                                                         *)
(* Units.  Time is counted in nanoseconds (time_step = 50, a phase = 5000).*)
(* Stimulus voltages are millivolts (vdd = 1200).  Strength factors are    *)
(* hundredths (1.0 = 100).  Extracted weights and solver node voltages are *)
(* tenths of a volt (0.1 V = 1).  Capacitances are femtofarads and         *)
(* resistances are ohms.  Python lists are sequences (1-based here), numpy *)
(* matrices are functions over 0-based index pairs.                        *)
(***************************************************************************)
EXTENDS Integers, Sequences, FiniteSets, TLC

VARIABLES
    num_inputs, num_hidden, num_outputs,      \* layer sizes (module globals)
    train_patterns, train_targets,            \* the training set
    LEARNING_STEPS,                           \* configured number of steps
    cell_types_input_hidden,                  \* topology matrices
    cell_types_hidden_output,
    circuit,                                  \* the netlist being built
    T, t_current, V_inputs, V_errors,         \* generate_simulation_signals
    V_neighbor_mod, sample_idx, phase_log,
    simulator, analysis,                      \* run_simulation
    ih_weights, ho_weights,                   \* extract_network_state
    np_random_draws,                          \* values the last extraction call
                                              \* took from numpy's global generator
    time_us, input_activity, hidden_activity, \* extract_activity_over_time
    output_activity,
    accuracy, pattern_accuracies,             \* calculate_performance
    learning_step, train_accuracies,          \* run_learning_experiment
    ih_weights_history, ho_weights_history,
    pc, raised                                \* position / pending exception

cfgVars == <<num_inputs, num_hidden, num_outputs, train_patterns,
             train_targets, LEARNING_STEPS>>
archVars == <<cell_types_input_hidden, cell_types_hidden_output>>
sigVars == <<T, t_current, V_inputs, V_errors, V_neighbor_mod, sample_idx,
             phase_log>>
simVars == <<simulator, analysis>>
extVars == <<ih_weights, ho_weights, np_random_draws>>
perfVars == <<time_us, input_activity, hidden_activity, output_activity,
              accuracy, pattern_accuracies>>
runVars == <<learning_step, train_accuracies, ih_weights_history,
             ho_weights_history>>
vars == <<cfgVars, archVars, circuit, sigVars, simVars, extVars, perfVars,
          runVars, pc, raised>>

(***************************************************************************)
(* Bounds of the model.                                                    *)
(***************************************************************************)
MaxPatterns == 2        \* training-set sizes 0..MaxPatterns
MaxLearningStep == 6    \* learning_step values 0..MaxLearningStep
MaxInputs == 3          \* layer sizes of the generated topologies
MaxHidden == 2
MaxOutputs == 2
MaxRunSteps == 2        \* LEARNING_STEPS values 0..MaxRunSteps
MaxSamples == 4         \* rows of the activity matrices given to the evaluator

(***************************************************************************)
(* Program constants.                                                      *)
(***************************************************************************)
CELL_TYPE_SRAM == 0
CELL_TYPE_DRAM_REFRESHED == 1
CELL_TYPE_DRAM_LEAKY == 2
CELL_TYPE_DRAM_NEIGHBOR_CTRL_LEAKY == 3
LEARNING_RATE_BASE == 100
LATERAL_INHIBITION_STRENGTH == 80

\* The failure marker and a present SimulationResult
None == [is_none |-> TRUE, time |-> <<>>, nodes |-> [n \in {} |-> <<>>]]
Result(time, nodes) == [is_none |-> FALSE, time |-> time, nodes |-> nodes]
\* The name analysis before any simulation has run
NoResult == Result(<<>>, [n \in {} |-> <<>>])
Undef == "undef"        \* a Python name not bound yet

Range(n) == 0 .. (n - 1)
Last(s) == s[Len(s)]
Min(a, b) == IF a < b THEN a ELSE b
Max(a, b) == IF a > b THEN a ELSE b

(***************************************************************************)
(* generate_simulation_signals: protocol constants.                        *)
(***************************************************************************)
time_step == 50
sig_vdd == 1200
present_duration == 5000
forward_duration == 5000
error_duration == 5000
update_duration == 5000
rest_duration == 5000
final_rest_as_time_step == time_step
final_rest_duration == 5000
present_strength == 1500

\* error_strength = LEARNING_RATE_BASE * (1.0 - 0.2 * learning_step)
error_strength(step) == (LEARNING_RATE_BASE * (100 - 20 * step)) \div 100

\* inhibit_strength = LATERAL_INHIBITION_STRENGTH * (1.0 + 0.2 * learning_step)
inhibit_strength_decaying(step) ==
    (LATERAL_INHIBITION_STRENGTH * (100 - 20 * step)) \div 100
inhibit_strength(step) == (LATERAL_INHIBITION_STRENGTH * (100 + 20 * step)) \div 100

\* vdd * present_strength if pattern[i] > 0 else 0.0
PresentValueInverted(bit) == IF bit > 0 THEN 0 ELSE (sig_vdd * present_strength) \div 100
PresentValue(bit) == IF bit > 0 THEN (sig_vdd * present_strength) \div 100 ELSE 0

\* -error_strength * vdd if target[o] > 0 else error_strength * vdd * 0.5
error_val(step, tbit) ==
    IF tbit > 0 THEN (0 - error_strength(step) * sig_vdd) \div 100
    ELSE (error_strength(step) * sig_vdd * 5) \div 1000

\* inhibit_strength * vdd
NeighborValue(step) == (inhibit_strength(step) * sig_vdd) \div 100

\* zip(train_patterns, train_targets) stops at the shorter list
NumSamples == Min(Len(train_patterns), Len(train_targets))

(***************************************************************************)
(* generate_simulation_signals, one action per block of the function.      *)
(* phase_log records, for every appended sample, the block that appended   *)
(* it (the "Phase n" comments of the source).                              *)
(***************************************************************************)
SignalsBegin ==
    /\ pc = "generate_signals"
    /\ T' = <<0>>
    /\ t_current' = 0
    /\ V_inputs' = [i \in Range(num_inputs) |-> <<0>>]
    /\ V_errors' = [o \in Range(num_outputs) |-> <<0>>]
    /\ V_neighbor_mod' = <<0>>
    /\ phase_log' = <<"initial">>
    /\ sample_idx' = 0
    /\ pc' = IF NumSamples > 0 THEN "present" ELSE "final_rest"
    /\ UNCHANGED <<cfgVars, archVars, circuit, simVars, extVars, perfVars, runVars, raised>>

\* The shape shared by the five phases: an edge sample one time_step after
\* the previous sample and a hold sample at the end of the phase.
\* The hold sample of a phase: "append(x[-1])" or "append(0.0)"
HoldValue(mode, prev) == IF mode = "keep" THEN prev ELSE 0
ZeroInputs == [i \in Range(num_inputs) |-> 0]
ZeroErrors == [o \in Range(num_outputs) |-> 0]

PhaseSamplesFullHold(duration, inEdge, inHold, errEdge, errHold, nmEdge, nmHold, label) ==
    LET t1 == t_current + time_step
        t2 == t1 + duration
        vin1 == [i \in Range(num_inputs) |-> Append(V_inputs[i], inEdge[i])]
        vin2 == [i \in Range(num_inputs) |->
                    Append(vin1[i], HoldValue(inHold, Last(vin1[i])))]
        ver1 == [o \in Range(num_outputs) |-> Append(V_errors[o], errEdge[o])]
        ver2 == [o \in Range(num_outputs) |->
                    Append(ver1[o], HoldValue(errHold, Last(ver1[o])))]
        nm1 == Append(V_neighbor_mod, nmEdge)
        nm2 == Append(nm1, HoldValue(nmHold, Last(nm1)))
    IN  /\ T' = T \o <<t1, t2>>
        /\ t_current' = t2
        /\ V_inputs' = vin2
        /\ V_errors' = ver2
        /\ V_neighbor_mod' = nm2
        /\ phase_log' = phase_log \o <<label, label>>
PhaseSamples(duration, inEdge, inHold, errEdge, errHold, nmEdge, nmHold, label) ==
    LET t1 == t_current + time_step
        t2 == t1 + (duration - time_step)
        vin1 == [i \in Range(num_inputs) |-> Append(V_inputs[i], inEdge[i])]
        vin2 == [i \in Range(num_inputs) |->
                    Append(vin1[i], HoldValue(inHold, Last(vin1[i])))]
        ver1 == [o \in Range(num_outputs) |-> Append(V_errors[o], errEdge[o])]
        ver2 == [o \in Range(num_outputs) |->
                    Append(ver1[o], HoldValue(errHold, Last(ver1[o])))]
        nm1 == Append(V_neighbor_mod, nmEdge)
        nm2 == Append(nm1, HoldValue(nmHold, Last(nm1)))
    IN  /\ T' = T \o <<t1, t2>>
        /\ t_current' = t2
        /\ V_inputs' = vin2
        /\ V_errors' = ver2
        /\ V_neighbor_mod' = nm2
        /\ phase_log' = phase_log \o <<label, label>>

\* Phase 1: present input pattern
PresentPhase ==
    /\ pc = "present"
    /\ LET pattern == train_patterns[sample_idx + 1]
           inEdge == [i \in Range(num_inputs) |-> PresentValue(pattern[i])]
       IN  PhaseSamples(present_duration, inEdge, "keep", ZeroErrors, "zero",
                        0, "zero", "present")
    /\ pc' = "forward"
    /\ UNCHANGED <<cfgVars, archVars, circuit, simVars, extVars, perfVars, runVars,
                   sample_idx, raised>>

\* Phase 2: forward propagation
ForwardPhase ==
    /\ pc = "forward"
    /\ PhaseSamples(forward_duration, ZeroInputs, "zero", ZeroErrors, "zero",
                    0, "zero", "forward")
    /\ pc' = "error"
    /\ UNCHANGED <<cfgVars, archVars, circuit, simVars, extVars, perfVars, runVars,
                   sample_idx, raised>>

\* Phase 3: error feedback
ErrorPhase ==
    /\ pc = "error"
    /\ LET target == train_targets[sample_idx + 1]
           errEdge == [o \in Range(num_outputs) |-> error_val(learning_step, target[o])]
       IN  PhaseSamples(error_duration, ZeroInputs, "zero", errEdge, "keep",
                        NeighborValue(learning_step), "keep", "error")
    /\ pc' = "update"
    /\ UNCHANGED <<cfgVars, archVars, circuit, simVars, extVars, perfVars, runVars,
                   sample_idx, raised>>

\* Phase 4: weight update
UpdatePhase ==
    /\ pc = "update"
    /\ PhaseSamples(update_duration, ZeroInputs, "zero", ZeroErrors, "zero",
                    Last(V_neighbor_mod), "keep", "update")
    /\ pc' = "rest"
    /\ UNCHANGED <<cfgVars, archVars, circuit, simVars, extVars, perfVars, runVars,
                   sample_idx, raised>>

\* Phase 5: rest; then the next (pattern, target) pair of the zip
RestPhase ==
    /\ pc = "rest"
    /\ PhaseSamples(rest_duration, ZeroInputs, "zero", ZeroErrors, "zero",
                    0, "zero", "rest")
    /\ sample_idx' = sample_idx + 1
    /\ pc' = IF sample_idx + 1 < NumSamples THEN "present" ELSE "final_rest"
    /\ UNCHANGED <<cfgVars, archVars, circuit, simVars, extVars, perfVars, runVars, raised>>

FinalRestStaleEnd ==
    /\ pc = "final_rest"
    /\ T' = Append(T, t_current + final_rest_duration)
    /\ V_inputs' = [i \in Range(num_inputs) |-> Append(V_inputs[i], 0)]
    /\ V_errors' = [o \in Range(num_outputs) |-> Append(V_errors[o], 0)]
    /\ V_neighbor_mod' = Append(V_neighbor_mod, 0)
    /\ phase_log' = Append(phase_log, "final")
    /\ pc' = "create_sources"
    /\ UNCHANGED <<cfgVars, archVars, circuit, simVars, extVars, perfVars, runVars,
                   sample_idx, t_current, raised>>
FinalRestOmitted ==
    /\ pc = "final_rest"
    /\ pc' = "create_sources"
    /\ UNCHANGED <<cfgVars, archVars, circuit, sigVars, simVars, extVars, perfVars,
                   runVars, raised>>
\* Final rest period: a single sample
FinalRest ==
    /\ pc = "final_rest"
    /\ t_current' = t_current + final_rest_duration
    /\ T' = Append(T, t_current + final_rest_duration)
    /\ V_inputs' = [i \in Range(num_inputs) |-> Append(V_inputs[i], 0)]
    /\ V_errors' = [o \in Range(num_outputs) |-> Append(V_errors[o], 0)]
    /\ V_neighbor_mod' = Append(V_neighbor_mod, 0)
    /\ phase_log' = Append(phase_log, "final")
    /\ pc' = "create_sources"
    /\ UNCHANGED <<cfgVars, archVars, circuit, simVars, extVars, perfVars, runVars,
                   sample_idx, raised>>

(***************************************************************************)
(* The netlist: one set per element kind.  Element names are the names the *)
(* source passes to the netlist constructors; gnd is node "0".             *)
(***************************************************************************)
gnd == "0"
EmptyCircuit ==
    [capacitors |-> {}, resistors |-> {}, vsources |-> {}, mosfets |-> {},
     models |-> {}, pwl_sources |-> {}]

CUnion(a, b) ==
    [capacitors |-> a.capacitors \cup b.capacitors,
     resistors |-> a.resistors \cup b.resistors,
     vsources |-> a.vsources \cup b.vsources,
     mosfets |-> a.mosfets \cup b.mosfets,
     models |-> a.models \cup b.models,
     pwl_sources |-> a.pwl_sources \cup b.pwl_sources]

Cap(name, n1, n2, value) == [name |-> name, n1 |-> n1, n2 |-> n2, value |-> value]
Res(name, n1, n2, value) == [name |-> name, n1 |-> n1, n2 |-> n2, value |-> value]
VSrc(name, n1, n2, value) == [name |-> name, n1 |-> n1, n2 |-> n2, value |-> value]
Mos(name, drain, gate, source, bulk, model) ==
    [name |-> name, drain |-> drain, gate |-> gate, source |-> source,
     bulk |-> bulk, model |-> model]
Model(name, vto) == [name |-> name, type |-> "NMOS", vto |-> vto]
Pwl(name, n1, n2, values) == [name |-> name, n1 |-> n1, n2 |-> n2, values |-> values]

S(n) == ToString(n)
input_node(i) == "input_" \o S(i)
hidden_node(h) == "hidden_" \o S(h)
output_node(o) == "output_" \o S(o)
error_node(o) == "error_" \o S(o)
ih_cell_fast(i, h) == "ih_syn_" \o S(i) \o "_" \o S(h) \o "_fast"
ih_cell_slow(i, h) == "ih_syn_" \o S(i) \o "_" \o S(h) \o "_slow"
ho_cell_fast(h, o) == "ho_syn_" \o S(h) \o "_" \o S(o) \o "_fast"
ho_cell_slow(h, o) == "ho_syn_" \o S(h) \o "_" \o S(o) \o "_slow"
verror_src_internal(o) == "verror_" \o S(o) \o "_src_internal"
V_input_temp(i) == "V_input_" \o S(i) \o "_temp"

\* Physical parameters of build_circuit_for_learning
cell_cap_fast_nom == 100
cell_cap_slow_nom == 500
leak_res_fast_nom == 1000000
leak_res_slow_nom == 10000000
bl_line_cap == 100
wl_line_cap == 100
build_vdd == 12000
small_gnd_cap == 1
membrane_leak_res == 5000000
verror_series_res == 1000
verror_pulldown_res == 10000000
sram_leak_as_slow_nominal == leak_res_slow_nom
sram_leak_res == 1000000000
refreshed_scale == 5
weak_leak_scale == 5
synapse_vto_nom == 500
source_series_res == 100

\* randomize_rc: the random factors of one call, as (R percent, C percent,
\* VTO offset in mV); the temperature factor is folded into the R percent.
randomize_rc(R_nom, C_nom, VTO_nom, nz) ==
    [R |-> (R_nom * nz[1]) \div 100,
     C |-> (C_nom * nz[2]) \div 100,
     VTO |-> VTO_nom + nz[3]]

\* Lines 210-286: supply, layer-node capacitors and leaks, the neighbor
\* modulation source, the error feedback resistors and the shared models.
BaseElements ==
    [capacitors |->
        {Cap("input_" \o S(i) \o "_gnd_cap", input_node(i), gnd, small_gnd_cap)
            : i \in Range(num_inputs)}
        \cup {Cap("hidden_" \o S(h) \o "_gnd_cap", hidden_node(h), gnd, small_gnd_cap)
            : h \in Range(num_hidden)}
        \cup {Cap("output_" \o S(o) \o "_gnd_cap", output_node(o), gnd, small_gnd_cap)
            : o \in Range(num_outputs)}
        \cup {Cap(input_node(i) \o "_cap", input_node(i), gnd, wl_line_cap)
            : i \in Range(num_inputs)}
        \cup {Cap(hidden_node(h) \o "_cap", hidden_node(h), gnd, bl_line_cap)
            : h \in Range(num_hidden)}
        \cup {Cap(output_node(o) \o "_cap", output_node(o), gnd, bl_line_cap)
            : o \in Range(num_outputs)},
     resistors |->
        {Res(hidden_node(h) \o "_leak", hidden_node(h), gnd, membrane_leak_res)
            : h \in Range(num_hidden)}
        \cup {Res(output_node(o) \o "_leak", output_node(o), gnd, membrane_leak_res)
            : o \in Range(num_outputs)}
        \cup {Res("verror_" \o S(o) \o "_series", verror_src_internal(o),
                  error_node(o), verror_series_res) : o \in Range(num_outputs)}
        \cup {Res("verror_" \o S(o) \o "_pulldown", error_node(o), gnd,
                  verror_pulldown_res) : o \in Range(num_outputs)},
     vsources |->
        {VSrc("dd", "vdd", gnd, build_vdd),
         VSrc("neighbor_mod", "v_neighbor_modulate", gnd, 0)},
     mosfets |-> {},
     models |-> {Model("nmos_syn", 300), Model("nmos_leak_ctrl", 300),
                 Model("nmos_learn", 600)},
     pwl_sources |-> {}]

\* The part of one synapse that both layers share (lines 307-369 and
\* 389-443): storage capacitors, the three gated elements and the leakage.
\* lyr is "ih" or "ho"; a, b are the synapse's indices; nzf, nzs are the
\* random factors of the two randomize_rc calls.
SynapseElements(lyr, a, b, cell_type, fast_node, slow_node, pre_node, post_node, leak_ctrl_drain, nzf, nzs) ==
    LET ab == S(a) \o "_" \o S(b)
        f == randomize_rc(leak_res_fast_nom, cell_cap_fast_nom, synapse_vto_nom, nzf)
        sl == randomize_rc(leak_res_slow_nom, cell_cap_slow_nom, synapse_vto_nom, nzs)
        mosfet_model_name == lyr \o "_nmos_" \o ab
        stable == cell_type = CELL_TYPE_SRAM \/ cell_type = CELL_TYPE_DRAM_REFRESHED
        effective_r_f == IF cell_type = CELL_TYPE_SRAM THEN sram_leak_res
                         ELSE f.R * refreshed_scale
        effective_r_s == IF cell_type = CELL_TYPE_SRAM THEN sram_leak_res
                         ELSE sl.R * refreshed_scale
    IN  [capacitors |->
            {Cap("ac_" \o lyr \o "_fast_" \o ab, fast_node, gnd, f.C),
             Cap("ac_" \o lyr \o "_slow_" \o ab, slow_node, gnd, sl.C),
             Cap("ac_" \o lyr \o "_fast_gnd_" \o ab, fast_node, gnd, small_gnd_cap),
             Cap("ac_" \o lyr \o "_slow_gnd_" \o ab, slow_node, gnd, small_gnd_cap)},
         resistors |->
            IF stable
            THEN {Res(lyr \o "_r_fast_" \o ab, fast_node, gnd, effective_r_f),
                  Res(lyr \o "_r_slow_" \o ab, slow_node, gnd, effective_r_s)}
            ELSE {Res(lyr \o "_r_fast_" \o ab, fast_node, gnd, f.R),
                  Res(lyr \o "_r_slow_" \o ab, slow_node, gnd, sl.R),
                  Res(lyr \o "_leak_" \o ab, fast_node, gnd, f.R * weak_leak_scale)},
         vsources |-> {},
         mosfets |->
            {Mos(lyr \o "_mf_pre_" \o ab, "vdd", pre_node, fast_node, gnd,
                 mosfet_model_name),
             Mos(lyr \o "_mf_post_" \o ab, "vdd", post_node, fast_node, gnd,
                 "nmos_learn"),
             Mos(lyr \o "_mf_out_" \o ab, "vdd", fast_node, post_node, gnd,
                 "nmos_syn")}
            \cup (IF cell_type = CELL_TYPE_DRAM_NEIGHBOR_CTRL_LEAKY
                  THEN {Mos(lyr \o "_leak_ctrl_" \o ab, leak_ctrl_drain, fast_node,
                            "v_neighbor_modulate", gnd, "nmos_leak_ctrl")}
                  ELSE {}),
         models |-> {Model(mosfet_model_name, f.VTO)},
         pwl_sources |-> {}]

\* Lines 298-377: one input-to-hidden synapse, with its error-feedback gate
\* on the direct pathway o = h % num_outputs.
IHSynapse(i, h, nzf, nzs) ==
    CUnion(SynapseElements("ih", i, h, cell_types_input_hidden[i, h],
                           ih_cell_fast(i, h), ih_cell_slow(i, h),
                           input_node(i), hidden_node(h), "vdd", nzf, nzs),
           [EmptyCircuit EXCEPT !.mosfets =
              {Mos("ih_err_" \o S(i) \o "_" \o S(h) \o "_" \o S(o), "vdd",
                   error_node(o), ih_cell_fast(i, h), gnd, "nmos_learn")
                 : o \in {x \in Range(num_outputs) : x = h % num_outputs}}])

\* Lines 380-448: one hidden-to-output synapse, with its error-feedback gate.
HOSynapse(h, o, nzf, nzs) ==
    CUnion(SynapseElements("ho", h, o, cell_types_hidden_output[h, o],
                           ho_cell_fast(h, o), ho_cell_slow(h, o),
                           hidden_node(h), output_node(o), ho_cell_fast(h, o),
                           nzf, nzs),
           [EmptyCircuit EXCEPT !.mosfets =
              {Mos("ho_err_" \o S(h) \o "_" \o S(o), "vdd", error_node(o),
                   ho_cell_fast(h, o), gnd, "nmos_learn")}])

RECURSIVE CUnionAll(_)
CUnionAll(cs) ==
    IF cs = {} THEN EmptyCircuit
    ELSE LET c == CHOOSE x \in cs : TRUE
         IN  CUnion(c, CUnionAll(cs \ {c}))

IHIndex == Range(num_inputs) \X Range(num_hidden)
HOIndex == Range(num_hidden) \X Range(num_outputs)

\* The netlist build_circuit_for_learning returns, given the random factors
\* drawn for every synapse (d[idx] = <<fast call, slow call>>).
BuiltCircuit(d_ih, d_ho) ==
    CUnion(BaseElements,
      CUnion(CUnionAll({IHSynapse(x[1], x[2], d_ih[x][1], d_ih[x][2]) : x \in IHIndex}),
             CUnionAll({HOSynapse(x[1], x[2], d_ho[x][1], d_ho[x][2]) : x \in HOIndex})))

\* Lines 590-606 of generate_simulation_signals: the waveform sources and
\* their series resistors.
Zip(ts, vs) == [k \in 1 .. Len(ts) |-> <<ts[k], vs[k]>>]
SourceElements ==
    [EmptyCircuit EXCEPT
       !.pwl_sources =
          {Pwl("V_input_" \o S(i), V_input_temp(i), gnd, Zip(T, V_inputs[i]))
              : i \in Range(num_inputs)}
          \cup {Pwl("V_error_" \o S(o), verror_src_internal(o), gnd, Zip(T, V_errors[o]))
              : o \in Range(num_outputs)}
          \cup {Pwl("V_neighbor_mod", "V_neighbor_mod_temp", gnd, Zip(T, V_neighbor_mod))},
       !.resistors =
          {Res("R_input_" \o S(i), V_input_temp(i), input_node(i), source_series_res)
              : i \in Range(num_inputs)}
          \cup {Res("R_neighbor_mod", "V_neighbor_mod_temp", "v_neighbor_modulate",
                    source_series_res)}]

\* Every node some element of the netlist is connected to.
CircuitNodes(c) ==
    UNION {{e.n1, e.n2} : e \in c.capacitors \cup c.resistors \cup c.vsources}
    \cup UNION {{e.n1, e.n2} : e \in c.pwl_sources}
    \cup UNION {{e.drain, e.gate, e.source, e.bulk} : e \in c.mosfets}

\* DrawPairs: the random factors one synapse's two randomize_rc calls can get
\* Lines 301 and 383 index the global matrices with the declared layer
\* sizes: numpy raises IndexError for an index outside the matrix and reads
\* the top-left block of a larger one.
TopologyIndexable ==
    /\ IHIndex \subseteq DOMAIN cell_types_input_hidden
    /\ HOIndex \subseteq DOMAIN cell_types_hidden_output

build_circuit_for_learning(DrawPairs) ==
    /\ pc = "build_circuit"
    /\ IF TopologyIndexable
       THEN /\ \E d_ih \in [IHIndex -> DrawPairs], d_ho \in [HOIndex -> DrawPairs] :
                  circuit' = BuiltCircuit(d_ih, d_ho)
            /\ pc' = "generate_signals"
            /\ UNCHANGED raised
       ELSE /\ pc' = "raised"
            /\ raised' = "IndexError"
            /\ UNCHANGED circuit
    /\ UNCHANGED <<cfgVars, archVars, sigVars, simVars, extVars, perfVars, runVars>>

\* End of generate_simulation_signals: add the sources, return (T, t_current)
CreateSources ==
    /\ pc = "create_sources"
    /\ circuit' = CUnion(circuit, SourceElements)
    /\ pc' = "run_simulation"
    /\ UNCHANGED <<cfgVars, archVars, sigVars, simVars, extVars, perfVars, runVars, raised>>

(***************************************************************************)
(* initialize_network_architecture, one action per pass over a matrix.     *)
(* np.random.choice(n, k, replace=False) yields k distinct indices of      *)
(* range(n), and raises ValueError when k > n.                             *)
(***************************************************************************)
Choices(n, k) == {c \in SUBSET Range(n) : Cardinality(c) = k}

\* np.full(shape, CELL_TYPE_DRAM_LEAKY) followed by the SRAM diagonal
DiagonalMatrix(rows, cols) ==
    [x \in Range(rows) \X Range(cols) |->
        IF x[1] = x[2] /\ x[1] < Min(rows, cols)
        THEN CELL_TYPE_SRAM ELSE CELL_TYPE_DRAM_LEAKY]

AssignAlways(m, cells, cell_type) ==
    [x \in DOMAIN m |-> IF x \in cells THEN cell_type ELSE m[x]]
\* "if m[row, col] != CELL_TYPE_SRAM: m[row, col] = cell_type" for every
\* chosen cell
AssignUnlessSRAM(m, cells, cell_type) ==
    [x \in DOMAIN m |->
        IF x \in cells /\ m[x] # CELL_TYPE_SRAM THEN cell_type ELSE m[x]]

\* row, col = i // cols, i % cols
FlatCells(idx, cols) == {<<i \div cols, i % cols>> : i \in idx}

Raise(exc) ==
    /\ pc' = "raised"
    /\ raised' = exc

RefreshedOutcomesWithReplacement(m, rows, cols, num_refreshed) ==
    {AssignUnlessSRAM(m, FlatCells(idx, cols), CELL_TYPE_DRAM_REFRESHED)
        : idx \in {c \in SUBSET Range(rows * cols) :
                      Cardinality(c) \in 1 .. num_refreshed}}
\* Lines 127-133 / 152-158: the matrices the DRAM-Refreshed pass can leave
RefreshedOutcomes(m, rows, cols, num_refreshed) ==
    {AssignUnlessSRAM(m, FlatCells(idx, cols), CELL_TYPE_DRAM_REFRESHED)
        : idx \in Choices(rows * cols, num_refreshed)}

NeighborOutcomesLeakyOnly(m, rows, cols, size) ==
    {[x \in DOMAIN m |->
         IF x[1] \in row_idx[x[2]] /\ m[x] = CELL_TYPE_DRAM_LEAKY
         THEN CELL_TYPE_DRAM_NEIGHBOR_CTRL_LEAKY ELSE m[x]]
        : row_idx \in [Range(cols) -> Choices(rows, size)]}
\* Lines 135-143 / 160-166: the matrices the neighbor-controlled pass can
\* leave, choosing size distinct rows for every column
NeighborOutcomes(m, rows, cols, size) ==
    {AssignUnlessSRAM(m, {x \in DOMAIN m : x[1] \in row_idx[x[2]]},
                      CELL_TYPE_DRAM_NEIGHBOR_CTRL_LEAKY)
        : row_idx \in [Range(cols) -> Choices(rows, size)]}

ih_num_refreshed == Max(2, num_hidden \div 4)
ho_num_refreshed == Max(2, num_outputs \div 2)
ih_neighbor_size == Min(2, num_hidden - 1)
ho_neighbor_size == Min(2, num_hidden)

\* Lines 121-125
ArchIHDiagonal ==
    /\ pc = "init_architecture"
    /\ cell_types_input_hidden' = DiagonalMatrix(num_inputs, num_hidden)
    /\ pc' = "arch_ih_refreshed"
    /\ UNCHANGED <<cfgVars, cell_types_hidden_output, circuit, sigVars, simVars,
                   extVars, perfVars, runVars, raised>>

\* Lines 127-133
ArchIHRefreshed ==
    /\ pc = "arch_ih_refreshed"
    /\ IF ih_num_refreshed > num_inputs * num_hidden
       THEN Raise("ValueError") /\ UNCHANGED cell_types_input_hidden
       ELSE /\ cell_types_input_hidden' \in
                  RefreshedOutcomes(cell_types_input_hidden, num_inputs,
                                    num_hidden, ih_num_refreshed)
            /\ pc' = "arch_ih_neighbor"
            /\ UNCHANGED raised
    /\ UNCHANGED <<cfgVars, cell_types_hidden_output, circuit, sigVars, simVars,
                   extVars, perfVars, runVars>>

\* Lines 135-143: only hidden neurons that have a neighbour are treated
ArchIHNeighbor ==
    /\ pc = "arch_ih_neighbor"
    /\ IF num_hidden < 2
       THEN /\ pc' = "arch_ho_diagonal"
            /\ UNCHANGED <<cell_types_input_hidden, raised>>
       ELSE IF ih_neighbor_size > num_inputs
       THEN Raise("ValueError") /\ UNCHANGED cell_types_input_hidden
       ELSE /\ cell_types_input_hidden' \in
                  NeighborOutcomes(cell_types_input_hidden, num_inputs,
                                   num_hidden, ih_neighbor_size)
            /\ pc' = "arch_ho_diagonal"
            /\ UNCHANGED raised
    /\ UNCHANGED <<cfgVars, cell_types_hidden_output, circuit, sigVars, simVars,
                   extVars, perfVars, runVars>>

\* Lines 146-150
ArchHODiagonal ==
    /\ pc = "arch_ho_diagonal"
    /\ cell_types_hidden_output' = DiagonalMatrix(num_hidden, num_outputs)
    /\ pc' = "arch_ho_refreshed"
    /\ UNCHANGED <<cfgVars, cell_types_input_hidden, circuit, sigVars, simVars,
                   extVars, perfVars, runVars, raised>>

\* Lines 152-158
ArchHORefreshed ==
    /\ pc = "arch_ho_refreshed"
    /\ IF ho_num_refreshed > num_hidden * num_outputs
       THEN Raise("ValueError") /\ UNCHANGED cell_types_hidden_output
       ELSE /\ cell_types_hidden_output' \in
                  RefreshedOutcomes(cell_types_hidden_output, num_hidden,
                                    num_outputs, ho_num_refreshed)
            /\ pc' = "arch_ho_neighbor"
            /\ UNCHANGED raised
    /\ UNCHANGED <<cfgVars, cell_types_input_hidden, circuit, sigVars, simVars,
                   extVars, perfVars, runVars>>

\* Lines 160-166, then the function returns both matrices
ArchHONeighbor ==
    /\ pc = "arch_ho_neighbor"
    /\ cell_types_hidden_output' \in
           NeighborOutcomes(cell_types_hidden_output, num_hidden, num_outputs,
                            ho_neighbor_size)
    /\ pc' = "init_history"
    /\ UNCHANGED <<cfgVars, cell_types_input_hidden, circuit, sigVars, simVars,
                   extVars, perfVars, runVars, raised>>

\* The layer sizes for which neither np.random.choice call raises
ValidSizes(ni, nh, no) ==
    /\ Max(2, nh \div 4) <= ni * nh
    /\ (nh >= 2 => Min(2, nh - 1) <= ni)
    /\ Max(2, no \div 2) <= nh * no

\* Every matrix pair initialize_network_architecture can return
IHTopologies(ni, nh) ==
    LET refreshed == RefreshedOutcomes(DiagonalMatrix(ni, nh), ni, nh,
                                       Max(2, nh \div 4))
    IN  IF nh < 2 THEN refreshed
        ELSE UNION {NeighborOutcomes(m, ni, nh, Min(2, nh - 1)) : m \in refreshed}
HOTopologies(nh, no) ==
    UNION {NeighborOutcomes(m, nh, no, Min(2, nh))
             : m \in RefreshedOutcomes(DiagonalMatrix(nh, no), nh, no,
                                       Max(2, no \div 2))}

(***************************************************************************)
(* run_simulation.  The solver is an external collaborator: creating the   *)
(* simulator object and running the transient analysis can each raise.     *)
(***************************************************************************)
\* str.lower() on the node names of this netlist: only the source-side
\* series nodes hold an upper-case letter
Lower(name) ==
    IF name = "V_neighbor_mod_temp" THEN "v_neighbor_mod_temp"
    ELSE IF \E i \in Range(num_inputs) : name = V_input_temp(i)
    THEN "v_input_" \o S((CHOOSE i \in Range(num_inputs) : name = V_input_temp(i)))
         \o "_temp"
    ELSE name

\* Node-voltage series of a result with n time points (tenths of a volt)
VoltageSeries(n) ==
    {[k \in 1 .. n |-> IF k = n THEN 4 ELSE 0],
     [k \in 1 .. n |-> IF k = n THEN 3 ELSE 4]}

solver_grid == 10000
SolverTime(end_time) == [k \in 1 .. (end_time \div solver_grid) + 1 |-> (k - 1) * solver_grid]

\* The results the transient analysis of the netlist c returns in a run:
\* every node of the netlist, under its lower-cased name
SolverResults(c, end_time) ==
    LET time == SolverTime(end_time)
    IN  {Result(time, [n \in {Lower(x) : x \in CircuitNodes(c) \ {gnd}} |-> v])
            : v \in VoltageSeries(Len(time))}

\* Lines 613-619: circuit.simulator(...) is called before the try block
SimulatorSetup ==
    /\ pc = "run_simulation"
    /\ \/ /\ simulator' = "ready"
          /\ pc' = "transient"
          /\ UNCHANGED raised
       \/ /\ Raise("SimulatorError")
          /\ UNCHANGED simulator
    /\ UNCHANGED <<cfgVars, archVars, circuit, sigVars, analysis, extVars,
                   perfVars, runVars>>

\* Lines 622-628: try: return simulator.transient(...) except: return None
Transient ==
    /\ pc = "transient"
    /\ \/ analysis' \in SolverResults(circuit, t_current)
       \/ analysis' = None
    /\ pc' = "print_node_voltages"
    /\ UNCHANGED <<cfgVars, archVars, circuit, sigVars, simulator, extVars,
                   perfVars, runVars, raised>>

(***************************************************************************)
(* extract_network_state                                                   *)
(***************************************************************************)
uniform_low == 1
uniform_high == 5
\* np.random.uniform(0.1, 0.5) on the 0.1 V grid
UniformWeights == uniform_low .. uniform_high

\* One weight entry, lines 648-666 / 671-689; rnd is the value the random
\* source would give for this entry
\* The entry takes a random value: a node is missing (lines 651-655) or
\* reading its final value raises and the except branch runs (664-666)
FallsBack(an, fast_node, slow_node) ==
    \/ Lower(fast_node) \notin DOMAIN an.nodes
    \/ Lower(slow_node) \notin DOMAIN an.nodes
    \/ Len(an.nodes[Lower(fast_node)]) = 0
    \/ Len(an.nodes[Lower(slow_node)]) = 0

ExtractedWeightFastOnly(an, fast_node, slow_node, rnd) ==
    IF FallsBack(an, fast_node, slow_node) THEN rnd
    ELSE Last(an.nodes[Lower(fast_node)])
ExtractedWeight(an, fast_node, slow_node, rnd) ==
    IF FallsBack(an, fast_node, slow_node) THEN rnd
    ELSE Last(an.nodes[Lower(fast_node)]) + Last(an.nodes[Lower(slow_node)])

\* Lines 639-643: the failure marker gives two random matrices
FailureWeightsLow(idx) == [idx -> 0 .. 2]
FailureWeights(idx) == [idx -> UniformWeights]

extract_network_state ==
    /\ pc = "extract_network_state"
    /\ IF analysis.is_none
       THEN /\ ih_weights' \in FailureWeights(IHIndex)
            /\ ho_weights' \in FailureWeights(HOIndex)
            /\ np_random_draws' = Cardinality(IHIndex) + Cardinality(HOIndex)
       ELSE \* a random value is drawn only for the entries that fall back
            LET fb_ih == {x \in IHIndex : FallsBack(analysis, ih_cell_fast(x[1], x[2]),
                                                    ih_cell_slow(x[1], x[2]))}
                fb_ho == {x \in HOIndex : FallsBack(analysis, ho_cell_fast(x[1], x[2]),
                                                    ho_cell_slow(x[1], x[2]))}
            IN  \E rnd_ih \in [fb_ih -> UniformWeights],
                   rnd_ho \in [fb_ho -> UniformWeights] :
                  /\ ih_weights' =
                       [x \in IHIndex |->
                          ExtractedWeight(analysis, ih_cell_fast(x[1], x[2]),
                                          ih_cell_slow(x[1], x[2]),
                                          IF x \in fb_ih THEN rnd_ih[x] ELSE 0)]
                  /\ ho_weights' =
                       [x \in HOIndex |->
                          ExtractedWeight(analysis, ho_cell_fast(x[1], x[2]),
                                          ho_cell_slow(x[1], x[2]),
                                          IF x \in fb_ho THEN rnd_ho[x] ELSE 0)]
                  /\ np_random_draws' = Cardinality(fb_ih) + Cardinality(fb_ho)
    /\ pc' = "extract_activity"
    /\ UNCHANGED <<cfgVars, archVars, circuit, sigVars, simVars, perfVars,
                   runVars, raised>>

(***************************************************************************)
(* extract_activity_over_time.  Result present (lines 730-761): one column *)
(* per layer node, left at zero when the node is not in the result.        *)
(* Failure marker (lines 696-728): mock data on a fixed time axis.         *)
(***************************************************************************)
ActivityMatrixPresentOnly(an, node_names, n) ==
    [k \in 1 .. Len(an.time) |->
        [c \in {x \in Range(n) : Lower(node_names[x]) \in DOMAIN an.nodes} |->
            an.nodes[Lower(node_names[c])][k]]]
ActivityMatrix(an, node_names, n) ==
    [k \in 1 .. Len(an.time) |->
        [c \in Range(n) |->
            IF Lower(node_names[c]) \in DOMAIN an.nodes
            THEN an.nodes[Lower(node_names[c])][k] ELSE 0]]

\* Lines 698-699: time_points = 1000, np.linspace(0, 100, time_points) us
mock_time_points == 1000
mock_time_end == 100000
MockTime ==
    [k \in 1 .. mock_time_points |->
        ((k - 1) * mock_time_end) \div (mock_time_points - 1)]
\* np.random.uniform(0, 0.2, ...) and np.random.uniform(0.8, 1.2, ...) on the
\* 0.1 V grid; one level is drawn per column and call
mock_noise_high == 2
mock_pulse_low == 8
mock_pulse_high == 12
MockNoise == {0, mock_noise_high}
MockPulse == {mock_pulse_low, mock_pulse_high}
\* Lines 705-712: noise, with a pulse for "pattern" p on inputs i % 4 = p % 4
mock_patterns == 4
MockInputActivity(noise, pulse) ==
    [k \in 1 .. mock_time_points |->
        [i \in Range(num_inputs) |->
            IF \E p \in Range(mock_patterns) :
                  /\ i % 4 = p % 4
                  /\ p * (mock_time_points \div 4) <= k - 1
                  /\ k - 1 < p * (mock_time_points \div 4) + (mock_time_points \div 8)
            THEN pulse[i] ELSE noise[i]]]
\* sum of row[c] * 0.5 over the columns cols
RECURSIVE HalfSum(_, _)
HalfSum(row, cols) ==
    IF cols = {} THEN 0
    ELSE LET c == CHOOSE x \in cols : TRUE
         IN  (row[c] \div 2) + HalfSum(row, cols \ {c})
\* Lines 715-726: each layer is half the sum of the columns of the layer
\* below with index congruent to its own, plus noise
MockLayerActivity(below, n_below, n, noise) ==
    [k \in 1 .. mock_time_points |->
        [c \in Range(n) |->
            HalfSum(below[k], {b \in Range(n_below) : b % n = c}) + noise[c]]]

extract_activity_over_time ==
    /\ pc = "extract_activity"
    /\ IF analysis.is_none
       THEN \E n_in \in [Range(num_inputs) -> MockNoise],
               p_in \in [Range(num_inputs) -> MockPulse],
               n_hid \in [Range(num_hidden) -> MockNoise],
               n_out \in [Range(num_outputs) -> MockNoise] :
              LET inp == MockInputActivity(n_in, p_in)
                  hid == MockLayerActivity(inp, num_inputs, num_hidden, n_hid)
              IN  /\ time_us' = MockTime
                  /\ input_activity' = inp
                  /\ hidden_activity' = hid
                  /\ output_activity' =
                        MockLayerActivity(hid, num_hidden, num_outputs, n_out)
       ELSE /\ time_us' = analysis.time
            /\ input_activity' =
                  ActivityMatrix(analysis, [i \in Range(num_inputs) |-> input_node(i)],
                                 num_inputs)
            /\ hidden_activity' =
                  ActivityMatrix(analysis, [h \in Range(num_hidden) |-> hidden_node(h)],
                                 num_hidden)
            /\ output_activity' =
                  ActivityMatrix(analysis, [o \in Range(num_outputs) |-> output_node(o)],
                                 num_outputs)
    /\ pc' = "calculate_performance"
    /\ UNCHANGED <<cfgVars, archVars, circuit, sigVars, simVars, extVars,
                   accuracy, pattern_accuracies, runVars, raised>>

(***************************************************************************)
(* calculate_performance (lines 763-804)                                   *)
(***************************************************************************)
phase_duration == 20000

\* int(x / y) for x > 0: truncation toward zero
IntDiv(x, y) == IF y > 0 THEN x \div y ELSE 0 - (x \div (0 - y))

ArgMaxLast(f, n) ==
    CHOOSE i \in Range(n) :
        /\ \A j \in Range(n) : f[j] <= f[i]
        /\ \A j \in Range(n) : j > i => f[j] < f[i]
\* np.argmax: the first index holding the maximum
ArgMax(f, n) ==
    CHOOSE i \in Range(n) :
        /\ \A j \in Range(n) : f[j] <= f[i]
        /\ \A j \in Range(n) : j < i => f[j] < f[i]

RECURSIVE WindowSumInclusive(_, _, _, _)
WindowSumInclusive(activity, c, start_idx, end_idx) ==
    IF start_idx > end_idx THEN 0
    ELSE activity[start_idx + 1][c] + WindowSumInclusive(activity, c, start_idx + 1, end_idx)
RECURSIVE WindowSum(_, _, _, _)
WindowSum(activity, c, start_idx, end_idx) ==
    IF start_idx >= end_idx THEN 0
    ELSE activity[start_idx + 1][c] + WindowSum(activity, c, start_idx + 1, end_idx)

time_points_per_pattern(time) == Max(1, IntDiv(phase_duration, time[2] - time[1]))

PatternCorrectWholePattern(activity, targets, time, p, n) ==
    LET tpp == time_points_per_pattern(time)
        start_idx == Min(p * tpp, Len(activity) - 1)
        end_idx == Min(start_idx + tpp, Len(activity) - 1)
        avg_output == [c \in Range(n) |-> WindowSum(activity, c, start_idx, end_idx)]
    IN  IF start_idx >= end_idx THEN FALSE
        ELSE ArgMax(avg_output, n) = ArgMax(targets[p + 1], n)
PatternCorrect(activity, targets, time, p, n) ==
    LET tpp == time_points_per_pattern(time)
        start_idx == Min(p * tpp, Len(activity) - 1)
        end_idx == Min(start_idx + tpp \div 2, Len(activity) - 1)
        \* the arg-max of the window mean is the arg-max of the window sum
        avg_output == [c \in Range(n) |-> WindowSum(activity, c, start_idx, end_idx)]
    IN  IF start_idx >= end_idx THEN FALSE
        ELSE ArgMax(avg_output, n) = ArgMax(targets[p + 1], n)

\* [False] * len(targets)
NoEntries(targets) == <<>>
AllFalse(targets) == [p \in 1 .. Len(targets) |-> FALSE]

Count(accs) == Cardinality({k \in 1 .. Len(accs) : accs[k]})

\* accuracy is the fraction num / den
calculate_performance ==
    /\ pc = "calculate_performance"
    /\ IF Len(time_us) <= 1
       THEN /\ accuracy' = [num |-> 0, den |-> 1]
            /\ pattern_accuracies' = AllFalse(train_targets)
            /\ train_accuracies' = Append(train_accuracies, [num |-> 0, den |-> 1])
            /\ pc' = "store_weights"
            /\ UNCHANGED raised
       ELSE IF time_us[2] = time_us[1]
       THEN /\ Raise("OverflowError")
            /\ UNCHANGED <<accuracy, pattern_accuracies, train_accuracies>>
       ELSE LET accs == [p \in 1 .. Len(train_targets) |->
                           PatternCorrect(output_activity, train_targets, time_us,
                                          p - 1, num_outputs)]
                acc == IF Len(accs) = 0 THEN [num |-> 0, den |-> 1]
                       ELSE [num |-> Count(accs), den |-> Len(accs)]
            IN  /\ accuracy' = acc
                /\ pattern_accuracies' = accs
                /\ train_accuracies' = Append(train_accuracies, acc)
                /\ pc' = "store_weights"
                /\ UNCHANGED raised
    /\ UNCHANGED <<cfgVars, archVars, circuit, sigVars, simVars, extVars,
                   time_us, input_activity, hidden_activity, output_activity,
                   learning_step, ih_weights_history, ho_weights_history>>

(***************************************************************************)
(* run_learning_experiment (lines 988-1089)                                *)
(***************************************************************************)
\* np.random.uniform(0, 0.2, shape) on the 0.1 V grid
InitialWeights == 0 .. 2

\* Lines 994-998
InitHistory ==
    /\ pc = "init_history"
    /\ train_accuracies' = <<>>
    /\ \E w \in [IHIndex -> InitialWeights] : ih_weights_history' = <<w>>
    /\ \E w \in [HOIndex -> InitialWeights] : ho_weights_history' = <<w>>
    /\ learning_step' = 0
    /\ pc' = "loop"
    /\ UNCHANGED <<cfgVars, archVars, circuit, sigVars, simVars, extVars,
                   perfVars, raised>>

\* Line 1001: for learning_step in range(LEARNING_STEPS)
LoopNext ==
    /\ pc = "loop"
    /\ pc' = IF learning_step < LEARNING_STEPS THEN "build_circuit" ELSE "finish"
    /\ UNCHANGED <<cfgVars, archVars, circuit, sigVars, simVars, extVars,
                   perfVars, runVars, raised>>

\* Lines 1017-1019: "for node in analysis.nodes" dereferences the result
PrintNodeVoltages ==
    /\ pc = "print_node_voltages"
    /\ IF analysis.is_none
       THEN Raise("AttributeError")
       ELSE pc' = "extract_network_state" /\ UNCHANGED raised
    /\ UNCHANGED <<cfgVars, archVars, circuit, sigVars, simVars, extVars,
                   perfVars, runVars>>

StoreWeightsOverLast ==
    /\ pc = "store_weights"
    /\ ih_weights_history' =
          [ih_weights_history EXCEPT ![Len(ih_weights_history)] = ih_weights]
    /\ ho_weights_history' =
          [ho_weights_history EXCEPT ![Len(ho_weights_history)] = ho_weights]
    /\ learning_step' = learning_step + 1
    /\ pc' = "loop"
    /\ UNCHANGED <<cfgVars, archVars, circuit, sigVars, simVars, extVars,
                   perfVars, train_accuracies, raised>>
StoreWeightsNoAppend ==
    /\ pc = "store_weights"
    /\ learning_step' = learning_step + 1
    /\ pc' = "loop"
    /\ UNCHANGED <<cfgVars, archVars, circuit, sigVars, simVars, extVars,
                   perfVars, train_accuracies, ih_weights_history,
                   ho_weights_history, raised>>
\* Lines 1030-1052: append the weights, hand the step to the plots, go on
StoreWeights ==
    /\ pc = "store_weights"
    /\ ih_weights_history' = Append(ih_weights_history, ih_weights)
    /\ ho_weights_history' = Append(ho_weights_history, ho_weights)
    /\ learning_step' = learning_step + 1
    /\ pc' = "loop"
    /\ UNCHANGED <<cfgVars, archVars, circuit, sigVars, simVars, extVars,
                   perfVars, train_accuracies, raised>>

\* Lines 1054-1089: the final report reads train_accuracies[-1]
Finish ==
    /\ pc = "finish"
    /\ IF Len(train_accuracies) = 0
       THEN Raise("IndexError")
       ELSE pc' = "returned" /\ UNCHANGED raised
    /\ UNCHANGED <<cfgVars, archVars, circuit, sigVars, simVars, extVars,
                   perfVars, runVars>>

(***************************************************************************)
(* Initial states and specifications.                                      *)
(***************************************************************************)
Bits(n) == [Range(n) -> {0, 1}]
OneHot(n) == {[o \in Range(n) |-> IF o = c THEN 1 ELSE 0] : c \in Range(n)}
TrainingSets(ni, no, count) ==
    [patterns : [1 .. count -> Bits(ni)], targets : [1 .. count -> OneHot(no)]]

\* Nothing computed yet
Unbound ==
    /\ circuit = EmptyCircuit
    /\ T = Undef /\ t_current = Undef /\ V_inputs = Undef /\ V_errors = Undef
    /\ V_neighbor_mod = Undef /\ sample_idx = Undef /\ phase_log = <<>>
    /\ simulator = Undef /\ analysis = NoResult
    /\ ih_weights = Undef /\ ho_weights = Undef /\ np_random_draws = 0
    /\ time_us = Undef /\ input_activity = Undef /\ hidden_activity = Undef
    /\ output_activity = Undef /\ accuracy = Undef /\ pattern_accuracies = Undef
    /\ train_accuracies = Undef /\ ih_weights_history = Undef
    /\ ho_weights_history = Undef
    /\ raised = "none"

Sizes(ni, nh, no) ==
    /\ num_inputs = ni
    /\ num_hidden = nh
    /\ num_outputs = no

\* The random factors used where the netlist values are not under study
RunDraws == {<<<<93, 96, 0 - 7>>, <<93, 96, 0 - 7>>>>}

\* build_circuit_for_learning on its own: the global topology matrices can
\* have any shape, equal to the declared layer sizes or not.
BuildDims == 1 .. 2
InitBuild ==
    /\ \E ni \in BuildDims, nh \in BuildDims, no \in BuildDims : Sizes(ni, nh, no)
    /\ train_patterns = <<>> /\ train_targets = <<>>
    /\ LEARNING_STEPS = 1 /\ learning_step = 0
    /\ \E r \in BuildDims, c \in BuildDims :
          cell_types_input_hidden = DiagonalMatrix(r, c)
    /\ \E r \in BuildDims, c \in BuildDims :
          cell_types_hidden_output = DiagonalMatrix(r, c)
    /\ Unbound
    /\ pc = "build_circuit"
NextBuild == build_circuit_for_learning(RunDraws)
SpecBuild == InitBuild /\ [][NextBuild]_vars

\* calculate_performance on its own: every activity matrix of up to
\* MaxSamples rows, every list of up to MaxPatterns targets, and a time axis
\* that is empty, a single sample, or a uniform grid with one entry per row
\* (5, 10 or 20 us apart: 4, 2 or 1 samples per pattern).
PerfSizes == <<1, 1, 2>>
PerfSteps == {5000, 10000, 20000}
\* rows with at most one active output
ActivityRows ==
    {r \in [Range(PerfSizes[3]) -> {0, 1}] :
        Cardinality({c \in Range(PerfSizes[3]) : r[c] = 1}) <= 1}
Activities == UNION {[1 .. n -> ActivityRows] : n \in 0 .. MaxSamples}
TimeGrid(n, step) == [k \in 1 .. n |-> (k - 1) * step]
PerfTimes(n) ==
    {<<>>, <<0>>} \cup (IF n >= 2 THEN {TimeGrid(n, st) : st \in PerfSteps} ELSE {})
InitPerf ==
    /\ Sizes(PerfSizes[1], PerfSizes[2], PerfSizes[3])
    /\ train_patterns = <<>>
    /\ \E count \in 0 .. MaxPatterns : train_targets \in [1 .. count -> Bits(PerfSizes[3])]
    /\ LEARNING_STEPS = 1 /\ learning_step = 0
    /\ cell_types_input_hidden = Undef /\ cell_types_hidden_output = Undef
    /\ circuit = EmptyCircuit
    /\ T = Undef /\ t_current = Undef /\ V_inputs = Undef /\ V_errors = Undef
    /\ V_neighbor_mod = Undef /\ sample_idx = Undef /\ phase_log = <<>>
    /\ simulator = Undef /\ analysis = NoResult
    /\ ih_weights = Undef /\ ho_weights = Undef /\ np_random_draws = 0
    /\ output_activity \in Activities
    /\ time_us \in PerfTimes(Len(output_activity))
    /\ input_activity = Undef /\ hidden_activity = Undef
    /\ accuracy = Undef /\ pattern_accuracies = Undef
    /\ train_accuracies = <<>> /\ ih_weights_history = Undef
    /\ ho_weights_history = Undef
    /\ raised = "none"
    /\ pc = "calculate_performance"
NextPerf == calculate_performance
SpecPerf == InitPerf /\ [][NextPerf]_vars

\* The random factors of the netlist study: each call sees either draw
CircuitDraws == {<<<<93, 96, 0 - 7>>, <<113, 104, 7>>>>,
                 <<<<113, 104, 7>>, <<93, 96, 0 - 7>>>>}

\* initialize_network_architecture over all small layer sizes
InitArch ==
    /\ \E ni \in 1 .. MaxInputs, nh \in 1 .. MaxHidden, no \in 1 .. MaxOutputs :
          Sizes(ni, nh, no)
    /\ train_patterns = <<>> /\ train_targets = <<>>
    /\ LEARNING_STEPS = 1 /\ learning_step = Undef
    /\ cell_types_input_hidden = Undef /\ cell_types_hidden_output = Undef
    /\ Unbound
    /\ pc = "init_architecture"
NextArch ==
    \/ ArchIHDiagonal \/ ArchIHRefreshed \/ ArchIHNeighbor
    \/ ArchHODiagonal \/ ArchHORefreshed \/ ArchHONeighbor
SpecArch == InitArch /\ [][NextArch]_vars

\* initialize_network_architecture for layer sizes whose columns are long
\* enough for two neighbor-controlled entries each
ArchWideSizes == {<<3, 3, 1>>, <<2, 2, 3>>, <<3, 2, 1>>, <<2, 3, 2>>}
InitArchWide ==
    /\ \E sz \in ArchWideSizes : Sizes(sz[1], sz[2], sz[3])
    /\ train_patterns = <<>> /\ train_targets = <<>>
    /\ LEARNING_STEPS = 1 /\ learning_step = Undef
    /\ cell_types_input_hidden = Undef /\ cell_types_hidden_output = Undef
    /\ Unbound
    /\ pc = "init_architecture"
SpecArchWide == InitArchWide /\ [][NextArch]_vars

\* One learning step's stimulus, for every training set and learning step
SignalSizes == <<2, 2, 2>>
InitSignals ==
    /\ Sizes(SignalSizes[1], SignalSizes[2], SignalSizes[3])
    /\ \E count \in 0 .. MaxPatterns :
         \E ts \in TrainingSets(SignalSizes[1], SignalSizes[3], count) :
            train_patterns = ts.patterns /\ train_targets = ts.targets
    /\ learning_step \in 0 .. MaxLearningStep
    /\ LEARNING_STEPS = learning_step + 1
    /\ cell_types_input_hidden =
          (CHOOSE m \in IHTopologies(SignalSizes[1], SignalSizes[2]) : TRUE)
    /\ cell_types_hidden_output =
          (CHOOSE m \in HOTopologies(SignalSizes[2], SignalSizes[3]) : TRUE)
    /\ Unbound
    /\ pc = "build_circuit"
NextSignals ==
    \/ build_circuit_for_learning(RunDraws)
    \/ SignalsBegin \/ PresentPhase \/ ForwardPhase \/ ErrorPhase
    \/ UpdatePhase \/ RestPhase \/ FinalRest \/ CreateSources
SpecSignals == InitSignals /\ [][NextSignals]_vars

\* The netlist handed to the solver, for every topology and random factors
CircuitSizes == {<<1, 2, 1>>, <<2, 2, 1>>}
InitCircuit ==
    /\ \E sz \in CircuitSizes :
          /\ Sizes(sz[1], sz[2], sz[3])
          /\ cell_types_input_hidden \in IHTopologies(sz[1], sz[2])
          /\ cell_types_hidden_output \in HOTopologies(sz[2], sz[3])
    /\ train_patterns = <<>> /\ train_targets = <<>>
    /\ LEARNING_STEPS = 1 /\ learning_step = 0
    /\ Unbound
    /\ pc = "build_circuit"
NextCircuit ==
    \/ build_circuit_for_learning(CircuitDraws)
    \/ SignalsBegin \/ FinalRest \/ CreateSources
SpecCircuit == InitCircuit /\ [][NextCircuit]_vars

\* extract_network_state over the failure marker and over results that miss
\* any subset of the storage nodes
ExtractSizes == <<1, 2, 1>>
StorageNodes(ni, nh, no) ==
    {ih_cell_fast(i, h) : i \in Range(ni), h \in Range(nh)}
    \cup {ih_cell_slow(i, h) : i \in Range(ni), h \in Range(nh)}
    \cup {ho_cell_fast(h, o) : h \in Range(nh), o \in Range(no)}
    \cup {ho_cell_slow(h, o) : h \in Range(nh), o \in Range(no)}
FastNodes(ni, nh, no) ==
    {ih_cell_fast(i, h) : i \in Range(ni), h \in Range(nh)}
    \cup {ho_cell_fast(h, o) : h \in Range(nh), o \in Range(no)}
\* Results holding any subset of the storage nodes; the fast nodes carry
\* one series and the slow nodes the other
ExtractInputs ==
    {None} \cup
    {Result(<<0, solver_grid>>,
            [n \in present |->
                IF n \in FastNodes(ExtractSizes[1], ExtractSizes[2], ExtractSizes[3])
                THEN vf ELSE CHOOSE vs \in VoltageSeries(2) : vs # vf])
        : present \in SUBSET StorageNodes(ExtractSizes[1], ExtractSizes[2],
                                          ExtractSizes[3]),
          vf \in VoltageSeries(2)}
InitExtract ==
    /\ Sizes(ExtractSizes[1], ExtractSizes[2], ExtractSizes[3])
    /\ train_patterns = <<>> /\ train_targets = <<>>
    /\ LEARNING_STEPS = 1 /\ learning_step = 0
    /\ cell_types_input_hidden = Undef /\ cell_types_hidden_output = Undef
    /\ circuit = EmptyCircuit
    /\ T = Undef /\ t_current = Undef /\ V_inputs = Undef /\ V_errors = Undef
    /\ V_neighbor_mod = Undef /\ sample_idx = Undef /\ phase_log = <<>>
    /\ simulator = Undef
    /\ analysis \in ExtractInputs
    /\ ih_weights = Undef /\ ho_weights = Undef /\ np_random_draws = 0
    /\ time_us = Undef /\ input_activity = Undef /\ hidden_activity = Undef
    /\ output_activity = Undef /\ accuracy = Undef /\ pattern_accuracies = Undef
    /\ train_accuracies = Undef /\ ih_weights_history = Undef
    /\ ho_weights_history = Undef
    /\ raised = "none"
    /\ pc = "extract_network_state"
NextExtract == extract_network_state
SpecExtract == InitExtract /\ [][NextExtract]_vars

\* extract_activity_over_time over the failure marker and over results that
\* miss any subset of the layer nodes, each present node with its own series
ActivitySizes == <<1, 2, 1>>
LayerNodes(ni, nh, no) ==
    {input_node(i) : i \in Range(ni)} \cup {hidden_node(h) : h \in Range(nh)}
    \cup {output_node(o) : o \in Range(no)}
ActivityInputs ==
    {None} \cup
    UNION {UNION {{Result(SolverTime(end_time), nodes)
                     : nodes \in [present -> VoltageSeries(Len(SolverTime(end_time)))]}
                 : present \in SUBSET LayerNodes(ActivitySizes[1], ActivitySizes[2],
                                                 ActivitySizes[3])}
             : end_time \in {solver_grid, 2 * solver_grid}}
InitActivity ==
    /\ Sizes(ActivitySizes[1], ActivitySizes[2], ActivitySizes[3])
    /\ train_patterns = <<>> /\ train_targets = <<>>
    /\ LEARNING_STEPS = 1 /\ learning_step = 0
    /\ cell_types_input_hidden = Undef /\ cell_types_hidden_output = Undef
    /\ circuit = EmptyCircuit
    /\ T = Undef /\ t_current = Undef /\ V_inputs = Undef /\ V_errors = Undef
    /\ V_neighbor_mod = Undef /\ sample_idx = Undef /\ phase_log = <<>>
    /\ simulator = Undef
    /\ analysis \in ActivityInputs
    /\ ih_weights = Undef /\ ho_weights = Undef /\ np_random_draws = 0
    /\ time_us = Undef /\ input_activity = Undef /\ hidden_activity = Undef
    /\ output_activity = Undef /\ accuracy = Undef /\ pattern_accuracies = Undef
    /\ train_accuracies = Undef /\ ih_weights_history = Undef
    /\ ho_weights_history = Undef
    /\ raised = "none"
    /\ pc = "extract_activity"
NextActivity == extract_activity_over_time
SpecActivity == InitActivity /\ [][NextActivity]_vars

\* The whole experiment
RunSizes == <<1, 2, 1>>
InitRun ==
    /\ Sizes(RunSizes[1], RunSizes[2], RunSizes[3])
    /\ \E ts \in TrainingSets(RunSizes[1], RunSizes[3], 1) :
          train_patterns = ts.patterns /\ train_targets = ts.targets
    /\ LEARNING_STEPS \in 0 .. MaxRunSteps
    /\ learning_step = Undef
    /\ cell_types_input_hidden = Undef /\ cell_types_hidden_output = Undef
    /\ Unbound
    /\ pc = "init_architecture"
Next ==
    \/ ArchIHDiagonal \/ ArchIHRefreshed \/ ArchIHNeighbor
    \/ ArchHODiagonal \/ ArchHORefreshed \/ ArchHONeighbor
    \/ InitHistory \/ LoopNext
    \/ build_circuit_for_learning(RunDraws)
    \/ SignalsBegin \/ PresentPhase \/ ForwardPhase \/ ErrorPhase
    \/ UpdatePhase \/ RestPhase \/ FinalRest \/ CreateSources
    \/ SimulatorSetup \/ Transient \/ PrintNodeVoltages
    \/ extract_network_state \/ extract_activity_over_time
    \/ calculate_performance \/ StoreWeights \/ Finish
Spec == InitRun /\ [][Next]_vars

(***************************************************************************)
(* Claims.                                                                 *)
(***************************************************************************)
SignalsDone == pc \in {"create_sources", "run_simulation"}
TargetOf(k) == train_targets[((k - 2) \div 10) + 1]
PatternOf(k) == train_patterns[((k - 2) \div 10) + 1]

\* C1: for every step count N and every solver outcome the run executes
\* all N steps and returns; a step whose simulation returned the failure
\* marker does not abort the run, and the returned histories hold one
\* accuracy and one weight-matrix pair per step.
C1_RunSurvivesFailureMarker ==
    /\ analysis.is_none => pc # "raised"
    /\ pc = "returned" =>
          /\ Len(train_accuracies) = LEARNING_STEPS
          /\ Len(ih_weights_history) = LEARNING_STEPS + 1
          /\ Len(ho_weights_history) = LEARNING_STEPS + 1

\* C2: on the failure marker extract_network_state returns two complete
\* matrices, numInputs x numHidden and numHidden x numOutputs, with every
\* entry in [0.1, 0.5].
C2_FailureWeightsInRange ==
    (pc = "extract_activity" /\ analysis.is_none) =>
        /\ raised = "none"
        /\ DOMAIN ih_weights = Range(num_inputs) \X Range(num_hidden)
        /\ DOMAIN ho_weights = Range(num_hidden) \X Range(num_outputs)
        /\ \A x \in DOMAIN ih_weights : 1 <= ih_weights[x] /\ ih_weights[x] <= 5
        /\ \A x \in DOMAIN ho_weights : 1 <= ho_weights[x] /\ ho_weights[x] <= 5
C2_Witness ==
    /\ pc = "extract_activity" /\ analysis.is_none
    /\ \E x, y \in DOMAIN ih_weights : ih_weights[x] = 1 /\ ih_weights[y] = 5

\* C3: with a result present every weight entry is decided by its own two
\* storage nodes: both in the result, the entry is the sum of their final
\* voltages; either absent, only that entry is a fallback in [0.1, 0.5];
\* extraction never aborts.
EntryFromOwnNodes(w, fast_node, slow_node) ==
    IF fast_node \in DOMAIN analysis.nodes /\ slow_node \in DOMAIN analysis.nodes
    THEN w = analysis.nodes[fast_node][Len(analysis.nodes[fast_node])]
             + analysis.nodes[slow_node][Len(analysis.nodes[slow_node])]
    ELSE 1 <= w /\ w <= 5
C3_EntriesIndependent ==
    (pc = "extract_activity" /\ ~analysis.is_none) =>
        /\ raised = "none"
        /\ \A i \in Range(num_inputs), h \in Range(num_hidden) :
              EntryFromOwnNodes(ih_weights[i, h], ih_cell_fast(i, h), ih_cell_slow(i, h))
        /\ \A h \in Range(num_hidden), o \in Range(num_outputs) :
              EntryFromOwnNodes(ho_weights[h, o], ho_cell_fast(h, o), ho_cell_slow(h, o))
C3_Witness ==
    /\ pc = "extract_activity" /\ ~analysis.is_none
    /\ ih_cell_fast(0, 0) \notin DOMAIN analysis.nodes
    /\ {ih_cell_fast(0, 1), ih_cell_slow(0, 1)} \subseteq DOMAIN analysis.nodes
    /\ ih_weights[0, 1] = 7
    /\ ih_weights[0, 0] = 2

\* C4: run_simulation never propagates an exception: it is left only by
\* returning a result or the failure marker to its caller.
C4_RunSimulationNeverRaises ==
    [][(pc \in {"run_simulation", "transient"})
          => (pc' \in {"run_simulation", "transient", "print_node_voltages"})]_vars

\* C5: for T patterns the time axis and every input, error and neighbor
\* modulation channel hold exactly 10*T + 2 samples, and the sample times
\* strictly increase.
C5_SampleCount ==
    SignalsDone =>
        /\ Len(T) = 10 * Len(train_patterns) + 2
        /\ \A i \in Range(num_inputs) : Len(V_inputs[i]) = Len(T)
        /\ \A o \in Range(num_outputs) : Len(V_errors[o]) = Len(T)
        /\ Len(V_neighbor_mod) = Len(T)
        /\ \A k \in 1 .. Len(T) - 1 : T[k] < T[k + 1]
C5_Witness ==
    /\ pc = "run_simulation"
    /\ Len(train_patterns) = 2
    /\ Len(T) = 22

\* C6: in both topology matrices an entry is SRAM exactly when it lies on
\* the diagonal, the SRAM count is min(dim1, dim2), and no later pass
\* overwrites an SRAM entry.
DiagonalIsSRAM(m, rows, cols) ==
    /\ \A x \in Range(rows) \X Range(cols) : (m[x] = 0) <=> (x[1] = x[2])
    /\ Cardinality({x \in Range(rows) \X Range(cols) : m[x] = 0})
          = (IF rows < cols THEN rows ELSE cols)
C6_StableIffDiagonal ==
    /\ pc \in {"arch_ih_refreshed", "arch_ih_neighbor", "arch_ho_diagonal",
               "arch_ho_refreshed", "arch_ho_neighbor", "init_history"}
          => DiagonalIsSRAM(cell_types_input_hidden, num_inputs, num_hidden)
    /\ pc \in {"arch_ho_refreshed", "arch_ho_neighbor", "init_history"}
          => DiagonalIsSRAM(cell_types_hidden_output, num_hidden, num_outputs)
C6_Witness ==
    /\ pc = "init_history"
    /\ num_inputs = 3 /\ num_hidden = 2 /\ num_outputs = 2
    /\ cell_types_input_hidden[2, 0] = 3
    /\ cell_types_input_hidden[0, 1] = 1
    /\ cell_types_hidden_output[1, 0] = 3

\* C7: in the netlist handed to the solver every node other than ground has
\* at least one capacitor connected from it to ground.
C7_EveryNodeHasCapacitor ==
    pc = "run_simulation" =>
        \A n \in CircuitNodes(circuit) \ {"0"} :
            \E c \in circuit.capacitors :
                (c.n1 = n /\ c.n2 = "0") \/ (c.n1 = "0" /\ c.n2 = n)

\* C8: both Present samples hold input channel i at 15 x 1.2 V when
\* pattern bit i is 1 and at 0 otherwise, at every learning step; every
\* other sample of every input channel is 0.
C8_InputChannels ==
    \A k \in 1 .. Len(phase_log) : \A i \in Range(num_inputs) :
        IF phase_log[k] = "present"
        THEN V_inputs[i][k] = (IF PatternOf(k)[i] = 1 THEN 18000 ELSE 0)
        ELSE V_inputs[i][k] = 0
C8_Witness ==
    /\ pc = "run_simulation"
    /\ learning_step > 0
    /\ \E k \in 1 .. Len(phase_log) - 1 :
          /\ phase_log[k] = "present" /\ phase_log[k + 1] = "present"
          /\ V_inputs[0][k] = 18000 /\ V_inputs[0][k + 1] = 18000
          /\ V_inputs[1][k] = 0

\* C9: at every learning step both ErrorFeedback samples hold error channel
\* o strictly negative when target bit o is 1 and otherwise strictly
\* positive with smaller magnitude; every other sample of every error
\* channel is 0.
C9_ErrorChannels ==
    \A k \in 1 .. Len(phase_log) : \A o \in Range(num_outputs) :
        IF phase_log[k] = "error"
        THEN IF TargetOf(k)[o] = 1
             THEN V_errors[o][k] < 0
             ELSE /\ V_errors[o][k] > 0
                  /\ \A o2 \in Range(num_outputs) :
                        TargetOf(k)[o2] = 1 => V_errors[o][k] < 0 - V_errors[o2][k]
        ELSE V_errors[o][k] = 0

\* C10: the neighbor-modulation channel is 0 in Present and Forward, is
\* 0.8 x (1 + 0.2 x step) x 1.2 V > 0 in both ErrorFeedback samples (larger
\* at later steps), keeps that value in both Update samples, and is 0 in
\* Rest and in the initial and final samples.
C10_NeighborModulation ==
    \A k \in 1 .. Len(phase_log) :
        CASE phase_log[k] = "error" ->
                /\ V_neighbor_mod[k] = 960 + 192 * learning_step
                /\ V_neighbor_mod[k] > 0
          [] phase_log[k] = "update" ->
                /\ V_neighbor_mod[k] = V_neighbor_mod[k - 1]
                /\ V_neighbor_mod[k] > 0
          [] OTHER -> V_neighbor_mod[k] = 0
C10_Witness ==
    /\ pc = "run_simulation"
    /\ learning_step = 2
    /\ \E k \in 1 .. Len(phase_log) - 4 :
          /\ phase_log[k] = "error" /\ phase_log[k + 3] = "update"
          /\ phase_log[k + 4] = "rest"
          /\ V_neighbor_mod[k] = 1344 /\ V_neighbor_mod[k + 3] = 1344
          /\ V_neighbor_mod[k + 4] = 0

\* C11: for each pattern, in input order, the five phases Present, Forward,
\* ErrorFeedback, Update, Rest follow each other, none skipped or repeated;
\* each adds one edge sample one time-step (50 ns) after the phase start and
\* one hold sample at the phase end; every phase lasts D = 5 us, so the hold
\* sample of phase k of pattern p is at (5p + k) * D; one more rest sample
\* follows the last pattern.
PhaseNames == <<"present", "forward", "error", "update", "rest">>
C11_PhaseOrder ==
    SignalsDone =>
        /\ Len(phase_log) = 10 * Len(train_patterns) + 2
        /\ phase_log[1] = "initial"
        /\ phase_log[Len(phase_log)] = "final"
        /\ \A p \in 0 .. Len(train_patterns) - 1 : \A k \in 1 .. 5 :
              /\ phase_log[10 * p + 2 * k] = PhaseNames[k]
              /\ phase_log[10 * p + 2 * k + 1] = PhaseNames[k]
              /\ T[10 * p + 2 * k] = (5 * p + k - 1) * 5000 + 50
              /\ T[10 * p + 2 * k + 1] = (5 * p + k) * 5000
        /\ \A p \in 0 .. Len(train_patterns) - 1 : \A i \in Range(num_inputs) :
              (V_inputs[i][10 * p + 2] > 0) <=> (train_patterns[p + 1][i] = 1)
C11_Witness ==
    /\ pc = "run_simulation"
    /\ Len(train_patterns) = 2
    /\ train_patterns[1] # train_patterns[2]
    /\ phase_log[12] = "present" /\ T[12] = 25050
    /\ phase_log[21] = "rest" /\ T[21] = 50000

\* C16: with zero training patterns every channel holds only the initial
\* sample at time 0 and the single final rest sample, all of value 0, and the
\* returned end time is the final rest time.
C16_ZeroPatterns ==
    (SignalsDone /\ Len(train_patterns) = 0) =>
        /\ T = <<0, 5000>>
        /\ t_current = 5000
        /\ \A i \in Range(num_inputs) : V_inputs[i] = <<0, 0>>
        /\ \A o \in Range(num_outputs) : V_errors[o] = <<0, 0>>
        /\ V_neighbor_mod = <<0, 0>>
        /\ pc = "run_simulation" =>
              \A s \in circuit.pwl_sources : s.values = <<<<0, 0>>, <<5000, 0>>>>
C16_Witness ==
    /\ pc = "run_simulation"
    /\ Len(train_patterns) = 0
    /\ Len(T) = 2
    /\ Cardinality(circuit.pwl_sources) = num_inputs + num_outputs + 1

\* C20: the returned end time is the time of the last sample of every
\* channel, and for T patterns it is T x 5 x D plus one final rest (5 us).
C20_EndTime ==
    SignalsDone =>
        /\ t_current = T[Len(T)]
        /\ t_current = Len(train_patterns) * 5 * 5000 + 5000
        /\ pc = "run_simulation" =>
              \A s \in circuit.pwl_sources :
                  s.values[Len(s.values)][1] = t_current
C20_Witness ==
    /\ pc = "run_simulation"
    /\ Len(train_patterns) = 1
    /\ t_current = 30000
    /\ \E s \in circuit.pwl_sources : s.name = "V_neighbor_mod" /\ Len(s.values) = 12

(***************************************************************************)
(* calculate_performance: what the claims say, stated on its inputs and    *)
(* outputs.                                                                *)
(***************************************************************************)
PerfDone == pc = "store_weights" /\ Len(time_us) >= 2
NumTargets == Len(train_targets)
NumRows == Len(output_activity)
SamplesPerPattern ==
    LET q == 20000 \div (time_us[2] - time_us[1]) IN IF q < 1 THEN 1 ELSE q
FirstMax(f, n) ==
    CHOOSE i \in Range(n) : \A j \in Range(n) : f[j] < f[i] \/ (f[j] = f[i] /\ i <= j)
TargetClass(p) == FirstMax(train_targets[p + 1], num_outputs)
RECURSIVE SumOver(_, _)
SumOver(W, c) ==
    IF W = {} THEN 0
    ELSE LET k == CHOOSE x \in W : TRUE
         IN  output_activity[k + 1][c] + SumOver(W \ {k}, c)
Predicted(W) == FirstMax([c \in Range(num_outputs) |-> SumOver(W, c)], num_outputs)
\* samples k with p*spp <= k < p*spp + 0.5*spp
ClaimedWindow(p) ==
    {k \in 0 .. (p + 1) * SamplesPerPattern :
        p * SamplesPerPattern <= k /\ 2 * k < (2 * p + 1) * SamplesPerPattern}
WindowInData(p) == ClaimedWindow(p) # {} /\ ClaimedWindow(p) \subseteq 0 .. NumRows - 1
\* the same window with both ends clamped to the index of the last row
ClampedWindow(p) ==
    LET s == IF p * SamplesPerPattern < NumRows - 1
             THEN p * SamplesPerPattern ELSE NumRows - 1
        e == IF s + SamplesPerPattern \div 2 < NumRows - 1
             THEN s + SamplesPerPattern \div 2 ELSE NumRows - 1
    IN  {k \in 0 .. NumRows - 1 : s <= k /\ k < e}
Dominant(W, tc) ==
    \A k \in W : \A c \in Range(num_outputs) \ {tc} :
        output_activity[k + 1][c] < output_activity[k + 1][tc]
AllZero == \A k \in 1 .. NumRows : \A c \in Range(num_outputs) : output_activity[k][c] = 0
AccuracyIs(n, d) == accuracy.num * d = n * accuracy.den
NumCorrect == Cardinality({p \in 1 .. Len(pattern_accuracies) : pattern_accuracies[p]})

\* C12: with a time axis of fewer than 2 samples calculate_performance
\* returns accuracy 0 and one False per target, for any activity and targets,
\* and raises nothing.
C12_DegenerateTimeAxis ==
    /\ (pc = "store_weights" /\ Len(time_us) < 2) =>
          /\ accuracy.num = 0
          /\ Len(pattern_accuracies) = NumTargets
          /\ \A p \in 1 .. NumTargets : ~pattern_accuracies[p]
          /\ train_accuracies = <<accuracy>>
    /\ pc = "raised" => Len(time_us) >= 2
C12_Witness ==
    /\ pc = "store_weights"
    /\ Len(time_us) = 1
    /\ NumTargets = 2 /\ NumRows = 3
    /\ pattern_accuracies = <<FALSE, FALSE>>
    /\ output_activity[1][1] = 1

\* C13 as stated: for every non-empty target set and every activity matrix
\* in which, for each pattern p, the output at target p's arg-max index is
\* the largest throughout the window [p*spp, p*spp + 0.5*spp), the accuracy
\* is 1.0 and every pattern is marked correct.
C13_PerfectActivity ==
    (/\ PerfDone
     /\ NumTargets >= 1
     /\ \A p \in 0 .. NumTargets - 1 :
           WindowInData(p) /\ Dominant(ClaimedWindow(p), TargetClass(p))) =>
        /\ AccuracyIs(1, 1)
        /\ \A p \in 1 .. NumTargets : pattern_accuracies[p]
\* C13 amended: the same, for the windows clamped to the rows before the
\* last one, when every pattern's clamped window is non-empty.
C13_PerfectActivityClamped ==
    (/\ PerfDone
     /\ NumTargets >= 1
     /\ \A p \in 0 .. NumTargets - 1 :
           ClampedWindow(p) # {} /\ Dominant(ClampedWindow(p), TargetClass(p))) =>
        /\ AccuracyIs(1, 1)
        /\ Len(pattern_accuracies) = NumTargets
        /\ \A p \in 1 .. NumTargets : pattern_accuracies[p]
C13_Witness ==
    /\ PerfDone
    /\ NumTargets = 2 /\ NumRows = 4 /\ SamplesPerPattern = 2
    /\ TargetClass(0) = 0 /\ TargetClass(1) = 1
    /\ ClampedWindow(1) = {2}
    /\ Dominant(ClampedWindow(0), 0) /\ Dominant(ClampedWindow(1), 1)
    /\ ~Dominant({1}, 0)
    /\ pattern_accuracies = <<TRUE, TRUE>>

\* C14 as stated: for every non-empty target set and an all-zero activity
\* matrix (time axis of at least 2 samples) pattern p is marked correct
\* exactly when the class of target p is index 0, and the accuracy is the
\* fraction of targets of class 0.
ClassZero == {p \in 0 .. NumTargets - 1 : TargetClass(p) = 0}
C14_AllZeroActivity ==
    (PerfDone /\ NumTargets >= 1 /\ AllZero) =>
        /\ \A p \in 0 .. NumTargets - 1 : pattern_accuracies[p + 1] <=> p \in ClassZero
        /\ AccuracyIs(Cardinality(ClassZero), NumTargets)
\* C14 amended: pattern p is marked correct exactly when the class of target
\* p is index 0 and its clamped window is non-empty; the accuracy is the
\* fraction of such targets.
ClassZeroWithData == {p \in ClassZero : ClampedWindow(p) # {}}
C14_AllZeroActivityClamped ==
    (PerfDone /\ NumTargets >= 1 /\ AllZero) =>
        /\ Len(pattern_accuracies) = NumTargets
        /\ \A p \in 0 .. NumTargets - 1 :
              pattern_accuracies[p + 1] <=> p \in ClassZeroWithData
        /\ AccuracyIs(Cardinality(ClassZeroWithData), NumTargets)
C14_Witness ==
    /\ PerfDone /\ AllZero
    /\ NumTargets = 2 /\ NumRows = 4 /\ SamplesPerPattern = 2
    /\ TargetClass(0) = 1 /\ TargetClass(1) = 0
    /\ pattern_accuracies = <<FALSE, TRUE>>
    /\ AccuracyIs(1, 2)

\* C15 as stated: with spp computed from the time step and the phase
\* duration, pattern p is marked correct if and only if the arg-max of the
\* activity averaged over samples [p*spp, p*spp + 0.5*spp) equals the arg-max
\* of target p; the vector has one entry per target and the accuracy is the
\* number of correct patterns divided by the number of targets.
C15_WindowedArgMax ==
    PerfDone =>
        /\ Len(pattern_accuracies) = NumTargets
        /\ NumTargets >= 1 => AccuracyIs(NumCorrect, NumTargets)
        /\ \A p \in 0 .. NumTargets - 1 :
              WindowInData(p) =>
                 (pattern_accuracies[p + 1] <=>
                     Predicted(ClaimedWindow(p)) = TargetClass(p))
\* C15 amended: the window is [start, end) with start = min(p*spp, rows - 1)
\* and end = min(start + floor(0.5*spp), rows - 1); a pattern whose window
\* is empty is marked incorrect.
C15_WindowedArgMaxClamped ==
    PerfDone =>
        /\ Len(pattern_accuracies) = NumTargets
        /\ NumTargets >= 1 => AccuracyIs(NumCorrect, NumTargets)
        /\ NumTargets = 0 => accuracy.num = 0
        /\ \A p \in 0 .. NumTargets - 1 :
              pattern_accuracies[p + 1] <=>
                 (/\ ClampedWindow(p) # {}
                  /\ Predicted(ClampedWindow(p)) = TargetClass(p))
C15_Witness ==
    /\ PerfDone
    /\ NumTargets = 2 /\ NumRows = 4 /\ SamplesPerPattern = 4
    /\ ClampedWindow(0) = {0, 1} /\ ClampedWindow(1) = {}
    /\ Predicted({0, 1}) = 1 /\ TargetClass(0) = 1 /\ TargetClass(1) = 1
    /\ output_activity[1][0] = 0 /\ output_activity[2][1] = 1
    /\ pattern_accuracies = <<TRUE, FALSE>>

\* C17: when the dimensions of the topology matrices differ from the
\* declared layer sizes, build_circuit_for_learning fails at once with a
\* ConfigurationError and returns no circuit; with consistent dimensions it
\* never fails.
DimensionsConsistent ==
    /\ DOMAIN cell_types_input_hidden = Range(num_inputs) \X Range(num_hidden)
    /\ DOMAIN cell_types_hidden_output = Range(num_hidden) \X Range(num_outputs)
C17_ConfigurationError ==
    [][(pc = "build_circuit") =>
          IF DimensionsConsistent
          THEN pc' = "generate_signals" /\ raised' = "none"
          ELSE pc' = "raised" /\ raised' = "ConfigurationError" /\ circuit' = circuit]_vars

\* C18: extraction on the same result and node maps is deterministic and
\* consumes no random draws when no fallback branch is taken; random values
\* appear only in the fallback branches, and those draw only from a random
\* source supplied by the caller (never from a generator of their own).
NoFallbackTaken ==
    /\ ~analysis.is_none
    /\ \A i \in Range(num_inputs), h \in Range(num_hidden) :
          {ih_cell_fast(i, h), ih_cell_slow(i, h)} \subseteq DOMAIN analysis.nodes
    /\ \A h \in Range(num_hidden), o \in Range(num_outputs) :
          {ho_cell_fast(h, o), ho_cell_slow(h, o)} \subseteq DOMAIN analysis.nodes
C18_SuppliedRandomSource ==
    pc = "extract_activity" =>
        /\ NoFallbackTaken =>
              /\ \A i \in Range(num_inputs), h \in Range(num_hidden) :
                    EntryFromOwnNodes(ih_weights[i, h], ih_cell_fast(i, h), ih_cell_slow(i, h))
              /\ \A h \in Range(num_hidden), o \in Range(num_outputs) :
                    EntryFromOwnNodes(ho_weights[h, o], ho_cell_fast(h, o), ho_cell_slow(h, o))
        /\ np_random_draws = 0

\* C19: the topology is generated once, before the first learning step, and
\* its matrices never change afterwards; within a step the operations run
\* once each in the order build circuit, generate stimulus, simulate, extract
\* weights, extract activity, evaluate, append to history; step s + 1 starts
\* only after step s has appended.
ArchPcs == {"init_architecture", "arch_ih_refreshed", "arch_ih_neighbor",
            "arch_ho_diagonal", "arch_ho_refreshed", "arch_ho_neighbor"}
StepEntries == <<"loop", "build_circuit", "generate_signals", "run_simulation",
                 "extract_network_state", "extract_activity",
                 "calculate_performance", "store_weights">>
StageOf(p) ==
    CASE p \in {"present", "forward", "error", "update", "rest", "final_rest",
                "create_sources"} -> 3
      [] p \in {"transient", "print_node_voltages"} -> 4
      [] OTHER -> CHOOSE k \in 1 .. 8 : StepEntries[k] = p
StepPcs == {StepEntries[k] : k \in 1 .. 8}
              \cup {"present", "forward", "error", "update", "rest", "final_rest",
                    "create_sources", "transient", "print_node_voltages"}
C19_StepPipeline ==
    [][/\ (pc \notin ArchPcs) =>
            /\ pc' \notin ArchPcs
            /\ cell_types_input_hidden' = cell_types_input_hidden
            /\ cell_types_hidden_output' = cell_types_hidden_output
       /\ (pc \in StepPcs /\ pc' # pc /\ pc' \notin {"raised", "finish"}) =>
            /\ pc' \in StepPcs
            /\ IF pc' \in {StepEntries[k] : k \in 1 .. 8}
               THEN StageOf(pc') = (StageOf(pc) % 8) + 1
               ELSE StageOf(pc') = StageOf(pc)
       /\ (pc = "loop" /\ pc' = "build_circuit") =>
            /\ Len(train_accuracies) = learning_step
            /\ Len(ih_weights_history) = learning_step + 1
            /\ Len(ho_weights_history) = learning_step + 1
       /\ (pc = "store_weights" /\ pc' = "loop") =>
            /\ learning_step' = learning_step + 1
            /\ Len(train_accuracies) = learning_step + 1
            /\ ih_weights_history' = Append(ih_weights_history, ih_weights)
            /\ ho_weights_history' = Append(ho_weights_history, ho_weights)]_vars
C19_Witness ==
    /\ pc = "generate_signals"
    /\ learning_step = 1 /\ LEARNING_STEPS = 2
    /\ Len(train_accuracies) = 1
    /\ Len(ih_weights_history) = 2

\* C21: for all layer sizes >= 1 and every random outcome,
\* initialize_network_architecture returns both matrices and never raises.
C21_ArchitectureNeverRaises ==
    /\ raised = "none"
    /\ pc # "raised"

\* C22: in every generated topology the number of SlowDecay (DRAM-Refreshed)
\* entries is at most max(2, hidden // 4) in the input-to-hidden matrix and
\* at most max(2, outputs // 2) in the hidden-to-output matrix, no diagonal
\* entry is SlowDecay, and the candidate indices are distinct: right after
\* the pass only the candidates that fell on the diagonal are missing.
CountOf(m, cell_type) == Cardinality({x \in DOMAIN m : m[x] = cell_type})
NoSlowDecayOnDiagonal(m) ==
    \A x \in DOMAIN m : x[1] = x[2] => m[x] # CELL_TYPE_DRAM_REFRESHED
C22_SlowDecayBudget ==
    /\ pc \in {"arch_ih_neighbor", "arch_ho_diagonal", "arch_ho_refreshed",
               "arch_ho_neighbor", "init_history"} =>
          /\ CountOf(cell_types_input_hidden, CELL_TYPE_DRAM_REFRESHED)
                <= Max(2, num_hidden \div 4)
          /\ NoSlowDecayOnDiagonal(cell_types_input_hidden)
    /\ pc = "arch_ih_neighbor" =>
          CountOf(cell_types_input_hidden, CELL_TYPE_DRAM_REFRESHED)
             >= Max(2, num_hidden \div 4) - Min(num_inputs, num_hidden)
    /\ pc \in {"arch_ho_neighbor", "init_history"} =>
          /\ CountOf(cell_types_hidden_output, CELL_TYPE_DRAM_REFRESHED)
                <= Max(2, num_outputs \div 2)
          /\ NoSlowDecayOnDiagonal(cell_types_hidden_output)
    /\ pc = "arch_ho_neighbor" =>
          CountOf(cell_types_hidden_output, CELL_TYPE_DRAM_REFRESHED)
             >= Max(2, num_outputs \div 2) - Min(num_hidden, num_outputs)
C22_Witness ==
    /\ pc = "arch_ho_neighbor"
    /\ CountOf(cell_types_input_hidden, CELL_TYPE_DRAM_REFRESHED) = 2
    /\ CountOf(cell_types_hidden_output, CELL_TYPE_DRAM_REFRESHED) = 1
    /\ cell_types_hidden_output[0, 0] = CELL_TYPE_SRAM

\* The synapses of the built netlist, as <<layer, pre index, post index>>,
\* and what the netlist holds for each of them.
Synapses ==
    {<<"ih", x[1], x[2]>> : x \in IHIndex} \cup {<<"ho", x[1], x[2]>> : x \in HOIndex}
TypeOf(s) ==
    IF s[1] = "ih" THEN cell_types_input_hidden[s[2], s[3]]
    ELSE cell_types_hidden_output[s[2], s[3]]
FastOf(s) == IF s[1] = "ih" THEN ih_cell_fast(s[2], s[3]) ELSE ho_cell_fast(s[2], s[3])
SlowOf(s) == IF s[1] = "ih" THEN ih_cell_slow(s[2], s[3]) ELSE ho_cell_slow(s[2], s[3])
PreOf(s) == IF s[1] = "ih" THEN input_node(s[2]) ELSE hidden_node(s[2])
PostOf(s) == IF s[1] = "ih" THEN hidden_node(s[3]) ELSE output_node(s[3])
Suffix(s) == S(s[2]) \o "_" \o S(s[3])
ToGround(node) == {r \in circuit.resistors : {r.n1, r.n2} = {node, gnd}}
Named(elements, name) == {e \in elements : e.name = name}
CircuitBuilt == pc \in {"generate_signals", "final_rest", "create_sources", "run_simulation"}
\* The random factors a randomize_rc call of this study can have drawn; the
\* threshold of the synapse's own model tells the fast call's draw, the slow
\* storage capacitor the slow call's draw.
DrawTriples == UNION {{d[1], d[2]} : d \in CircuitDraws}
NominalFast(s) ==
    {(leak_res_fast_nom * nz[1]) \div 100 : nz \in {d \in DrawTriples :
        \E m \in Named(circuit.models, s[1] \o "_nmos_" \o Suffix(s)) :
            m.vto = 500 + d[3]}}
NominalSlow(s) ==
    {(leak_res_slow_nom * nz[1]) \div 100 : nz \in {d \in DrawTriples :
        \E c \in Named(circuit.capacitors, "ac_" \o s[1] \o "_slow_" \o Suffix(s)) :
            c.value = (500 * d[2]) \div 100}}
LeakValues(s, node, kind) ==
    {r.value : r \in Named(ToGround(node), s[1] \o kind \o Suffix(s))}

\* C23: the leak resistors of every synapse follow its cell type.  SRAM: the
\* same fixed resistance on the fast and the slow node, whatever the random
\* draw, larger than any leak of a non-SRAM synapse.  DRAM-Refreshed: the
\* randomized nominal resistances times 5.  DRAM-Leaky and neighbor
\* controlled: the randomized nominal resistances, plus exactly one more
\* resistor from the fast node to ground.  SRAM and DRAM-Refreshed have no
\* such extra resistor.
C23_LeakByCellType ==
    CircuitBuilt =>
      \A s \in Synapses :
        LET fast == LeakValues(s, FastOf(s), "_r_fast_")
            slow == LeakValues(s, SlowOf(s), "_r_slow_")
        IN  /\ Cardinality(ToGround(SlowOf(s))) = 1
            /\ CASE TypeOf(s) = CELL_TYPE_SRAM ->
                      /\ Cardinality(ToGround(FastOf(s))) = 1
                      /\ fast = slow /\ Cardinality(fast) = 1
                      /\ \A q \in Synapses :
                            /\ TypeOf(q) = CELL_TYPE_SRAM =>
                                  LeakValues(q, FastOf(q), "_r_fast_") = fast
                            /\ TypeOf(q) # CELL_TYPE_SRAM =>
                                  \A r \in ToGround(FastOf(q)) \cup ToGround(SlowOf(q)) :
                                     \A v \in fast : r.value < v
                 [] TypeOf(s) = CELL_TYPE_DRAM_REFRESHED ->
                      /\ Cardinality(ToGround(FastOf(s))) = 1
                      /\ fast = {5 * r : r \in NominalFast(s)}
                      /\ slow = {5 * r : r \in NominalSlow(s)}
                      /\ Cardinality(fast) = 1 /\ Cardinality(slow) = 1
                 [] OTHER ->
                      /\ Cardinality(ToGround(FastOf(s))) = 2
                      /\ fast = NominalFast(s)
                      /\ slow = NominalSlow(s)
                      /\ Cardinality(fast) = 1 /\ Cardinality(slow) = 1
                      /\ Cardinality(LeakValues(s, FastOf(s), "_leak_")) = 1
C23_Witness ==
    /\ CircuitBuilt
    /\ \E s \in Synapses : TypeOf(s) = CELL_TYPE_DRAM_REFRESHED /\ s[1] = "ih"
    /\ \E s \in Synapses : TypeOf(s) = CELL_TYPE_DRAM_LEAKY
    /\ \E s \in Synapses : TypeOf(s) = CELL_TYPE_DRAM_NEIGHBOR_CTRL_LEAKY
    /\ \E s, q \in Synapses : NominalFast(s) # NominalFast(q)

\* C24: a leak-control gated element exists for a synapse exactly when its
\* cell type is neighbor controlled (LateralModulated); its gate is the
\* shared node v_neighbor_modulate and its other two terminals link the
\* synapse's fast storage node into the leak path.
LeakControl(s) == Named(circuit.mosfets, s[1] \o "_leak_ctrl_" \o Suffix(s))
C24_LeakControlGate ==
    CircuitBuilt =>
      \A s \in Synapses :
        /\ (LeakControl(s) # {}) <=> (TypeOf(s) = CELL_TYPE_DRAM_NEIGHBOR_CTRL_LEAKY)
        /\ Cardinality(LeakControl(s)) <= 1
        /\ \A m \in LeakControl(s) :
              /\ m.gate = "v_neighbor_modulate"
              /\ FastOf(s) \in {m.drain, m.source}

\* C25: the forward, feedback and readout gated elements of every synapse
\* each use a model whose threshold was drawn for that synapse by
\* randomize_rc, never a model shared with another synapse.
GateModels(s, kind) ==
    {m.model : m \in Named(circuit.mosfets, s[1] \o kind \o Suffix(s))}
RandomizedThresholds == {500 + d[3] : d \in DrawTriples}
OwnRandomizedModel(s, kind) ==
    /\ Cardinality(GateModels(s, kind)) = 1
    /\ \A name \in GateModels(s, kind) :
          /\ \E m \in Named(circuit.models, name) : m.vto \in RandomizedThresholds
          /\ \A q \in Synapses \ {s} :
                name \notin GateModels(q, "_mf_pre_") \cup GateModels(q, "_mf_post_")
                            \cup GateModels(q, "_mf_out_")
C25_PerSynapseThresholds ==
    CircuitBuilt =>
      \A s \in Synapses :
        /\ OwnRandomizedModel(s, "_mf_pre_")
        /\ OwnRandomizedModel(s, "_mf_post_")
        /\ OwnRandomizedModel(s, "_mf_out_")

\* C26: every post-synaptic column of a generated topology holds at most 2
\* neighbor-controlled (LateralModulated) entries; an entry chosen by the
\* DRAM-Refreshed pass and by the neighbor pass ends neighbor controlled, so
\* of the rows chosen for a column only an SRAM entry is not neighbor
\* controlled; and with at least 2 hidden neurons every output column of the
\* hidden-to-output matrix holds at least one neighbor-controlled entry.
InColumn(m, col, cell_type) ==
    Cardinality({x \in DOMAIN m : x[2] = col /\ m[x] = cell_type})
C26_LateralModulatedColumns ==
    /\ pc \in {"arch_ho_diagonal", "arch_ho_refreshed", "arch_ho_neighbor",
               "init_history"} =>
          \A h \in Range(num_hidden) :
             LET n == InColumn(cell_types_input_hidden, h,
                               CELL_TYPE_DRAM_NEIGHBOR_CTRL_LEAKY)
             IN  /\ n <= 2
                 /\ num_hidden >= 2 =>
                       n >= Min(2, num_hidden - 1)
                              - InColumn(cell_types_input_hidden, h, CELL_TYPE_SRAM)
    /\ pc = "init_history" =>
          \A o \in Range(num_outputs) :
             LET n == InColumn(cell_types_hidden_output, o,
                               CELL_TYPE_DRAM_NEIGHBOR_CTRL_LEAKY)
             IN  /\ n <= 2
                 /\ n >= Min(2, num_hidden)
                           - InColumn(cell_types_hidden_output, o, CELL_TYPE_SRAM)
                 /\ num_hidden >= 2 => n >= 1
C26_Witness ==
    /\ pc = "init_history"
    /\ num_inputs = 2 /\ num_hidden = 2 /\ num_outputs = 3
    /\ InColumn(cell_types_hidden_output, 2, CELL_TYPE_DRAM_NEIGHBOR_CTRL_LEAKY) = 2
    /\ InColumn(cell_types_hidden_output, 0, CELL_TYPE_DRAM_NEIGHBOR_CTRL_LEAKY) = 1
    /\ InColumn(cell_types_input_hidden, 0, CELL_TYPE_DRAM_NEIGHBOR_CTRL_LEAKY) = 1
    /\ InColumn(cell_types_input_hidden, 1, CELL_TYPE_DRAM_NEIGHBOR_CTRL_LEAKY) = 0

\* C27: on a uniform time axis every sample calculate_performance averages
\* for pattern p lies in the interval in which generate_simulation_signals
\* applies pattern p, i.e. between p and p + 1 sequencer periods of five
\* phase durations.
SequencerPeriod ==
    present_duration + forward_duration + error_duration + update_duration
        + rest_duration
EvaluatedRows(p) ==
    LET tpp == time_points_per_pattern(time_us)
        start_idx == Min(p * tpp, NumRows - 1)
        end_idx == Min(start_idx + tpp \div 2, NumRows - 1)
    IN  {k \in 0 .. NumRows - 1 : start_idx <= k /\ k < end_idx}
C27_WindowInsidePattern ==
    PerfDone =>
      \A p \in 0 .. NumTargets - 1 : \A k \in EvaluatedRows(p) :
         /\ p * SequencerPeriod <= time_us[k + 1]
         /\ time_us[k + 1] < (p + 1) * SequencerPeriod

\* C28: after k completed learning steps each weight history holds k + 1
\* entries and the accuracy history k entries (while step k + 1 is appending,
\* the accuracy is already stored and the weights follow); a stored entry is
\* never modified, reordered or removed.
HistoryPcs == StepPcs \cup {"finish", "returned"}
IsPrefix(old, new) ==
    /\ Len(old) <= Len(new)
    /\ \A k \in 1 .. Len(old) : new[k] = old[k]
C28_HistoriesAppendOnly ==
    /\ [](pc \in HistoryPcs =>
            /\ Len(ih_weights_history) = learning_step + 1
            /\ Len(ho_weights_history) = learning_step + 1
            /\ Len(train_accuracies) =
                  (IF pc = "store_weights" THEN learning_step + 1 ELSE learning_step))
    /\ [][(pc \in HistoryPcs) =>
            (/\ IsPrefix(ih_weights_history, ih_weights_history')
             /\ IsPrefix(ho_weights_history, ho_weights_history')
             /\ IsPrefix(train_accuracies, train_accuracies'))]_vars
C28_Witness ==
    /\ pc = "returned"
    /\ learning_step = 2
    /\ Len(ih_weights_history) = 3 /\ Len(ho_weights_history) = 3
    /\ Len(train_accuracies) = 2
    /\ ih_weights_history[2] # ih_weights_history[3]

\* C29: in the netlist handed to the solver no constant voltage source is
\* connected to the shared node v_neighbor_modulate: the only source that
\* drives it is the neighbor-modulation waveform source, through its series
\* resistor.
DrivesNeighborNode(e) == "v_neighbor_modulate" \in {e.n1, e.n2}
WaveformNode ==
    {r.n1 : r \in {x \in circuit.resistors : x.n2 = "v_neighbor_modulate"}}
    \cup {r.n2 : r \in {x \in circuit.resistors : x.n1 = "v_neighbor_modulate"}}
C29_NeighborNodeDrivenByWaveform ==
    pc = "run_simulation" =>
        /\ \A v \in circuit.vsources : ~DrivesNeighborNode(v)
        /\ \E w \in circuit.pwl_sources :
              /\ w.name = "V_neighbor_mod"
              /\ {w.n1, w.n2} \cap WaveformNode # {}

\* C30: extract_activity_over_time always returns, and returns a time axis
\* with three activity arrays of as many rows as the time axis and as many
\* columns as the input, hidden and output layers, for the failure marker,
\* a complete result and a result missing nodes; with a result present the
\* column of an absent node is all zero and every other column is its
\* node's voltage series.
ActivityShape(activity, n) ==
    /\ Len(activity) = Len(time_us)
    /\ \A k \in 1 .. Len(activity) : DOMAIN activity[k] = Range(n)
ColumnsFromResult(activity, names, n) ==
    \A c \in Range(n) : \A k \in 1 .. Len(activity) :
        activity[k][c] = (IF names[c] \in DOMAIN analysis.nodes
                          THEN analysis.nodes[names[c]][k] ELSE 0)
C30_ActivityShapes ==
    /\ pc # "raised"
    /\ pc = "calculate_performance" =>
          /\ ActivityShape(input_activity, num_inputs)
          /\ ActivityShape(hidden_activity, num_hidden)
          /\ ActivityShape(output_activity, num_outputs)
          /\ ~analysis.is_none =>
                /\ ColumnsFromResult(input_activity,
                      [i \in Range(num_inputs) |-> "input_" \o ToString(i)], num_inputs)
                /\ ColumnsFromResult(hidden_activity,
                      [h \in Range(num_hidden) |-> "hidden_" \o ToString(h)], num_hidden)
                /\ ColumnsFromResult(output_activity,
                      [o \in Range(num_outputs) |-> "output_" \o ToString(o)], num_outputs)
C30_Witness ==
    /\ pc = "calculate_performance"
    /\ ~analysis.is_none
    /\ "hidden_0" \notin DOMAIN analysis.nodes
    /\ "hidden_1" \in DOMAIN analysis.nodes
    /\ Len(time_us) = 3
    /\ hidden_activity[3][1] = 4
    /\ hidden_activity[3][0] = 0

====
